---- MODULE Spec2Model ----
(***************************************************************************)
(* A model of the micro trade bot: the sequential trading cycle of bot.py  *)
(* (completed-trade recording, open-order management, buy placement), the  *)
(* balance cache of bot.py and the profit matcher of utils/profit.py.      *)
(*                                                                         *)
(* Units.  Money and prices are integers in units of 0.001 USD, volumes    *)
(* are whole tokens (lot_decimals = 0, pair_decimals = 3), times are whole *)
(* seconds.  Fractions of config.py are kept as scaled integers: percent   *)
(* for the usage fractions, tenths for the risk multipliers.               *)
(***************************************************************************)
EXTENDS Integers, Sequences, FiniteSets, TLC

(***************************************************************************)
(* Program constants (config.py and literals of the code).                 *)
(***************************************************************************)
MAX_ACCOUNT_USAGE_PERCENT == 10
MAX_TRADE_SIZE_PERCENT == 3
PRICE_RANGE_MED == 50
PRICE_RANGE_HIGH == 150
RISK_MULTIPLIER_LOW == 10
RISK_MULTIPLIER_MED == 7
RISK_MULTIPLIER_HIGH == 4
MAX_ORDERS_PER_PAIR == 2
BALANCE_CACHE_DURATION == 60
ExpireAge == 1800
ReviewAge == 600
Lookback == 1800
FeeNumer == 10026
FeeDenom == 10000
\* position_tracker.py 60-69: the keys of a position, with filled_timestamp.
PositionFields == 9
\* position_tracker.py 35 and 103, in seconds.
DayAge == 86400
HourAge == 3600
\* strategy.py 199: the arguments of the place_buy_order call.
PlaceArguments == 4
\* bot.py 410: the cycles between two cleanups of the positions.
CleanupEvery == 10
\* order_manager.py 340, 363, 415 and 502: the settlement window in seconds, the
\* fill ratio in percent, the balance polls, the fee rate in ten-thousandths.
SettleLookback == 1800
FillRatioPercent == 95
max_balance_checks == 3
DefaultFee10000 == 26
\* config.py 36-38, in thousandths.
PROFIT_MARGIN_LOW == 3
PROFIT_MARGIN_MED == 2
PROFIT_MARGIN_HIGH == 1
\* strategy.py 192: the margin level required, in hundredths.
MarginFloor == 110
\* config.py 71, in thousandths of a dollar.
MAX_TOKEN_PRICE == 200

(***************************************************************************)
(* Bounds of the model.                                                    *)
(***************************************************************************)
MaxOrders == 2
MaxRunOrders == 3
MaxCycles == 2
MaxCalls == 2
MaxElapsed == 70
MaxTxid == 3
MaxErrors == 2
MaxMs == 2
MaxPositions == 2
MaxClosed == 2
MaxLastPrice == 60
MaxStored == 2
PosHorizon == 104000

Exchanges == {"kraken", "bitmart"}
ExchangeOrder == <<"kraken", "bitmart">>
Pairs == {"AUSDT"}
Prices == {10, 60}
OrderMins == {0, 600}
BidOffsets == {-1}
MarketPrices == {9, 10, 11}
ManagePairs == {"BUSDT"}
DiscPairs == {"XUSDT", "YUSDT", "ZUSDT"}
DiscPrices == {200, 201}
PosElapses == {3601, 86400}
SettleVolume == 100
RunPrice == 10000
BidSpread == {-2, -1, 0, 1, 2}
StoreNow == 200000
MarginLevels == {0, 100, 109, 110, 111, 150, 200}
Leverages == {1, 2, 3}
BalancePolls == {-1, 0, 50, 100}
CoarseOrdermin == 60
ManagePrices == {1000}
ManageMarketPrices == {949, 951, 953, 1000, 1020, 1021}
ManageAges == {500, 600, 601, 700, 1800, 1801}
StrategyLedgers == {0, 3000, 10000, 12000}
TickerAnswers == {"none", "raise", "ok"}
BookAnswers == {"none", "raise", "ok"}
QuotePrices == {0, 10, 20}
Depths == {0, 100, 300}
Balances == {100000}
Sleeps == {900}
ExternalPrices == {10}
ExternalSides == {"sell"}
ExternalVolumes == {100}
Shapes == {"ok", "nokey", "nofields"}
\* time.time() at start-up, in seconds
ClockStart == 100000
Elapses == {30, 40}
BalanceData == {1, 2}
BuyVolumes == {50, 100}
BuyPrices == {10, 12}
BuyFees == {0, 10}
SellVolumes == {50, 120}
SellPrices == {13}
SellFees == {0, 12}
Waits == {0, 1000}
Txids == 1..MaxTxid
OrderIds == 1..MaxOrders

None == [none |-> TRUE]

(***************************************************************************)
(* utils/helpers.py                                                        *)
(***************************************************************************)
get_price_range_category(price) ==
    IF price <= PRICE_RANGE_MED THEN "low"
    ELSE IF price <= PRICE_RANGE_HIGH THEN "medium"
    ELSE "high"

get_risk_multiplier(price) ==
    LET category == get_price_range_category(price) IN
    IF category = "low" THEN RISK_MULTIPLIER_LOW
    ELSE IF category = "medium" THEN RISK_MULTIPLIER_MED
    ELSE RISK_MULTIPLIER_HIGH

(***************************************************************************)
(* Python's round(x, 0) of the rational n/d (d > 0, n >= 0): nearest       *)
(* integer, ties to the even neighbour.                                    *)
(***************************************************************************)
RoundDiv(n, d) ==
    LET q == n \div d
        r == n % d
    IN IF 2 * r < d THEN q
       ELSE IF 2 * r > d THEN q + 1
       ELSE IF q % 2 = 0 THEN q ELSE q + 1

Min(a, b) == IF a <= b THEN a ELSE b
Max(a, b) == IF a >= b THEN a ELSE b

RECURSIVE SumOver(_, _)
SumOver(S, f) ==
    IF S = {} THEN 0
    ELSE LET x == CHOOSE y \in S : TRUE
         IN f[x] + SumOver(S \ {x}, f)

(***************************************************************************)
(* State of the trading cycle (bot.py main and the trading package).       *)
(*   pc, exi      position of the sequential main loop: the phase and the  *)
(*                index of the exchange the phase is at                    *)
(*   now, cyc     the clock (seconds) and the number of finished cycles    *)
(*   orders       the account's orders as the exchanges hold them          *)
(*   ledger       exchange_open_order_values                               *)
(*   balance      exchange_usdt_balances, read once at start-up            *)
(*   recorded     RECORDED_ORDERS_FILE: order id -> none/open/closed       *)
(*   trades       TRADES_FILE, the appended trade records                  *)
(*   metrics      session_metrics: total_trades and orders_placed          *)
(*   trained      the order ids handed to train_bot, in order              *)
(*   positions    all_open_positions, one list per exchange                *)
(*   canceledAny  orders_canceled_any of the current cycle                 *)
(*   todo         the discovered pairs the placing loop has still to visit *)
(*   ev           history: what the last step did                          *)
(***************************************************************************)
VARIABLES pc, exi, now, cyc, orders, ledger, balance, recorded, trades,
          metrics, trained, positions, canceledAny, todo, ev

cycleVars == <<pc, exi, now, cyc, orders, ledger, balance, recorded, trades,
               metrics, trained, positions, canceledAny, todo, ev>>

(***************************************************************************)
(* The state of get_cached_balance (bot.py 65-133).                        *)
(*   balance_cache  per exchange: data (None before the first fetch) and   *)
(*                  timestamp                                              *)
(*   clock          time.time()                                            *)
(*   call           the call in progress or just returned: its arguments,  *)
(*                  current_time, the loop's attempt, and as history the   *)
(*                  entry it found, the requests it sent, how many failed, *)
(*                  the sleeps it took and what it returned; None before   *)
(*                  the first call                                         *)
(*   calls          how many calls were made                               *)
(***************************************************************************)
VARIABLES balance_cache, clock, call, calls

balanceVars == <<balance_cache, clock, call, calls>>

(***************************************************************************)
(* The state the profit matcher works on (utils/profit.py, session.py).    *)
(*   fills     the filled buy orders the exchange lists as closed          *)
(*   file      TRADES_FILE as record_trade wrote it                        *)
(*   consumed  history: per buy txid, the volume all sells so far took     *)
(*   wall      time.time()                                                 *)
(*   last      history: the last record_trade call                         *)
(***************************************************************************)
VARIABLES fills, file, consumed, wall, last

profitVars == <<fills, file, consumed, wall, last>>

(***************************************************************************)
(* The state of one call of select_best_exchange (exchanges/comparison.py). *)
(*   quotes  history: the exchanges asked, and per exchange what get_ticker *)
(*           and get_order_book did                                        *)
(*   choice  what the call returned: an exchange or None                   *)
(***************************************************************************)
VARIABLES quotes, choice

selectVars == <<quotes, choice>>

(***************************************************************************)
(* The state of one run of main (bot.py 136-449).                          *)
(*   mpc                     where main is: "start", "startup", "loop",     *)
(*                           "finally" or "exited"                          *)
(*   environ                 the configuration and credentials main found   *)
(*   main_exchanges          the keys of the dict exchanges                 *)
(*   balance_response        what get_cached_balance answered at start-up   *)
(*   exchange_usdt_balances  the keys of the dict exchange_usdt_balances    *)
(*   shutdown_reason         session_metrics['shutdown_reason']             *)
(*   errors_encountered      session_metrics['errors_encountered']          *)
(*   summary_file            the session summary on disk: None while        *)
(*                           nothing was written, else the reason it states *)
(***************************************************************************)
VARIABLES mpc, environ, main_exchanges, balance_response, exchange_usdt_balances,
          shutdown_reason, errors_encountered, summary_file, interrupted, summaries

mainVars == <<mpc, environ, main_exchanges, balance_response, exchange_usdt_balances,
              shutdown_reason, errors_encountered, summary_file, interrupted, summaries>>

(***************************************************************************)
(* The state of one call of get_sub_cent_tokens (exchanges/kraken.py).     *)
(*   dpc              the calling thread: "idle", "running" or "returned"   *)
(*   usdt_pairs       the pairs submitted to the pool                       *)
(*   ticker_info      per pair, what the ticker request of its worker gets  *)
(*   wpc              per pair, where its worker is in check_pair           *)
(*   lock             the holder of the mutex, or "free"                    *)
(*   sub_cent_tokens  the keys of the result map                            *)
(*   returned_tokens  the keys of the map the call returned                 *)
(*   ms               the clock, int(1000 * time.time())                    *)
(*   nonces           history: the nonces of the requests, in the order in  *)
(*                    which kraken_request computed them                    *)
(***************************************************************************)
VARIABLES dpc, usdt_pairs, ticker_info, wpc, lock, sub_cent_tokens, returned_tokens,
          ms, nonces

discVars == <<dpc, usdt_pairs, ticker_info, wpc, lock, sub_cent_tokens, returned_tokens,
              ms, nonces>>

(***************************************************************************)
(* The position store (trading/position_tracker.py) as the bot uses it.    *)
(*   all_open_positions  per exchange, the list main keeps in memory        *)
(*   positions_file      per exchange, the lines of open_positions_<e>.txt  *)
(*   ptime               the clock, time.time()                             *)
(*   next_order          the order ids the exchanges have given out so far  *)
(*   ever_filled         history: the order ids whose position was filled   *)
(*   pev                 history: the last operation on the store           *)
(***************************************************************************)
VARIABLES all_open_positions, positions_file, ptime, next_order, ever_filled, pev

posVars == <<all_open_positions, positions_file, ptime, next_order, ever_filled, pev>>

(***************************************************************************)
(* The state of one conversion of a pair name (exchanges/kraken.py and     *)
(* exchanges/bitmart.py).  A pair name is the sequence of its characters.  *)
(*   pair_in     the exchange asked and the pair name given, or None        *)
(*   normalized  normalize_pair of the name                                 *)
(*   formatted   get_pair_format of the name (once), of that result         *)
(*               (twice), and of the normalized name (back), or None        *)
(***************************************************************************)
VARIABLES pair_in, normalized, formatted

pairVars == <<pair_in, normalized, formatted>>

(***************************************************************************)
(* The state of the middle of one cycle of main (bot.py 268-406): the      *)
(* manage phase as far as its result goes, the settlement of filled buys   *)
(* (order_manager.py check_and_place_sell_orders), the cooldown, placing.  *)
(* Prices and amounts of money are in millionths of a dollar, volumes of   *)
(* sell orders in hundredths of a token.                                   *)
(*   spc                  the phase: "manage", "settle", "loop" (inside     *)
(*                        the loop over the filled buys), "cooldown",       *)
(*                        "place" or "end"                                  *)
(*   sexi                 index into ExchangeOrder of the phase's exchange  *)
(*   orders_canceled_any  the flag of bot.py 269                            *)
(*   cooled               the cooldown of bot.py 294-297 is behind          *)
(*   open_sell            per exchange: an open sell order for the pair     *)
(*                        exists on the exchange                            *)
(*   filled_buys          filled_buy_orders still to be processed           *)
(*   sev                  history: what the last step did                   *)
(***************************************************************************)
VARIABLES spc, sexi, orders_canceled_any, cooled, open_sell, filled_buys, sev

settleVars == <<spc, sexi, orders_canceled_any, cooled, open_sell, filled_buys, sev>>

(***************************************************************************)
(* One pass through the order placement of simple_trading_strategy         *)
(* (strategy.py 176-199) with its margin check.                            *)
(*   margin_order   None before the pass; after it the configuration, the  *)
(*                  answer of the TradeBalance request, the leverage the   *)
(*                  order was sent with (0 for None) and what became of it *)
(***************************************************************************)
VARIABLES margin_order

marginVars == <<margin_order>>

(***************************************************************************)
(* One call of cleanup_filled_positions (run a second time on its own      *)
(* result), of load_open_positions, or of save_open_positions followed by  *)
(* load_open_positions, on any list and any file.                          *)
(*   store   None before the call; after it the arguments and the result   *)
(***************************************************************************)
VARIABLES store

storeVars == <<store>>

(***************************************************************************)
(* One call of calculate_dynamic_buy_price on any last price and order     *)
(* book; prices in units of the last decimal place of the price precision. *)
(*   priced   None before the call; after it the arguments and the price   *)
(***************************************************************************)
VARIABLES priced

pricedVars == <<priced>>

(***************************************************************************)
(* The trading cycles of bot.py 252-418 on one exchange and one pair, one   *)
(* after the other without end.  The present is time 0: every timestamp is *)
(* the negated number of seconds it lies behind.                           *)
(*   run_pc                    the phase of the cycle                      *)
(*   xorders                   the orders on the exchange, the txid of an  *)
(*                             order being its place in the sequence       *)
(*   base_balance              the free balance of the pair's base         *)
(*                             currency, in hundredths of a token          *)
(*   run_positions             all_open_positions[exchange]                *)
(*   recorded_ids              the txids of RECORDED_ORDERS_FILE           *)
(*   position_cleanup_counter  the counter of bot.py 409                   *)
(***************************************************************************)
VARIABLES run_pc, xorders, base_balance, run_positions, recorded_ids,
          position_cleanup_counter

runVars == <<run_pc, xorders, base_balance, run_positions, recorded_ids, position_cleanup_counter>>

(***************************************************************************)
(* The balance polls of check_and_place_sell_orders for one filled buy     *)
(* (order_manager.py 414-476) over the balance cache of bot.py 71-133.     *)
(*   ppc               "idle" before the loop, "loop" in it, "done" after  *)
(*   poll_cache        balance_cache[exchange_name]                        *)
(*   poll_clock        time.time()                                         *)
(*   exchange_balance  the base currency the exchange holds for the        *)
(*                     account at this moment, in tokens                   *)
(*   poll_log          history: one record for every poll made             *)
(***************************************************************************)
VARIABLES ppc, poll_cache, poll_clock, exchange_balance, poll_log

pollVars == <<ppc, poll_cache, poll_clock, exchange_balance, poll_log>>

vars == <<cycleVars, balanceVars, profitVars, selectVars, mainVars, discVars, posVars, pairVars, settleVars, marginVars, storeVars, pricedVars, runVars, pollVars>>

\* What an action of one part leaves alone.
notCycle == <<balanceVars, profitVars, selectVars, mainVars, discVars, posVars, pairVars, settleVars, marginVars, storeVars, pricedVars, runVars, pollVars>>
notBalance == <<cycleVars, profitVars, selectVars, mainVars, discVars, posVars, pairVars, settleVars, marginVars, storeVars, pricedVars, runVars, pollVars>>
notProfit == <<cycleVars, balanceVars, selectVars, mainVars, discVars, posVars, pairVars, settleVars, marginVars, storeVars, pricedVars, runVars, pollVars>>
notSelect == <<cycleVars, balanceVars, profitVars, mainVars, discVars, posVars, pairVars, settleVars, marginVars, storeVars, pricedVars, runVars, pollVars>>
notMain == <<cycleVars, balanceVars, profitVars, selectVars, discVars, posVars, pairVars, settleVars, marginVars, storeVars, pricedVars, runVars, pollVars>>
notDisc == <<cycleVars, balanceVars, profitVars, selectVars, mainVars, posVars, pairVars, settleVars, marginVars, storeVars, pricedVars, runVars, pollVars>>
notPos == <<cycleVars, balanceVars, profitVars, selectVars, mainVars, discVars, pairVars, settleVars, marginVars, storeVars, pricedVars, runVars, pollVars>>
notPair == <<cycleVars, balanceVars, profitVars, selectVars, mainVars, discVars, posVars, settleVars, marginVars, storeVars, pricedVars, runVars, pollVars>>
notSettle == <<cycleVars, balanceVars, profitVars, selectVars, mainVars, discVars, posVars, pairVars, marginVars, storeVars, pricedVars, runVars, pollVars>>
notMargin == <<cycleVars, balanceVars, profitVars, selectVars, mainVars, discVars, posVars, pairVars, settleVars, storeVars, pricedVars, runVars, pollVars>>
notStore == <<cycleVars, balanceVars, profitVars, selectVars, mainVars, discVars, posVars, pairVars, settleVars, marginVars, pricedVars, runVars, pollVars>>
notPriced == <<cycleVars, balanceVars, profitVars, selectVars, mainVars, discVars, posVars, pairVars, settleVars, marginVars, storeVars, runVars, pollVars>>
notRun == <<cycleVars, balanceVars, profitVars, selectVars, mainVars, discVars, posVars, pairVars, settleVars, marginVars, storeVars, pricedVars, pollVars>>
notPoll == <<cycleVars, balanceVars, profitVars, selectVars, mainVars, discVars, posVars, pairVars, settleVars, marginVars, storeVars, pricedVars, runVars>>

Value(o) == o.price * o.vol

OnExchange(e, st) == {i \in OrderIds : orders[i] # None /\ orders[i].ex = e /\ orders[i].st = st}

FreeIds == {i \in OrderIds : orders[i] = None}
NextId == CHOOSE i \in FreeIds : \A j \in FreeIds : i <= j

Orderings(S) == {s \in [1..Cardinality(S) -> S] : \A i, j \in 1..Cardinality(S) : s[i] = s[j] => i = j}

(***************************************************************************)
(* trading/position_tracker.py                                             *)
(***************************************************************************)
add_open_position(open_positions, pair, order_id, side, volume, price, exchange, timestamp) ==
    Append(open_positions,
           [pair |-> pair, order_id |-> order_id, side |-> side, volume |-> volume,
            price |-> price, exchange |-> exchange, timestamp |-> timestamp,
            status |-> "open", filled_timestamp |-> 0])

update_position_status(open_positions, order_id, new_status, exchange, t) ==
    LET hits == {k \in 1..Len(open_positions) :
                    open_positions[k].order_id = order_id /\ open_positions[k].exchange = exchange}
    IN IF hits = {} THEN open_positions
       ELSE LET k == CHOOSE m \in hits : \A n \in hits : m <= n
            IN [open_positions EXCEPT
                    ![k].status = new_status,
                    ![k].filled_timestamp = IF new_status = "filled" THEN t ELSE @]

get_open_positions_for_pair(open_positions, pair) ==
    {k \in 1..Len(open_positions) :
        open_positions[k].pair = pair /\ open_positions[k].status = "open"}

(***************************************************************************)
(* trading/strategy.py                                                     *)
(***************************************************************************)
\* calculate_dynamic_buy_price: book is "none" (no order book), "empty" (a
\* book without bids) or "bids" (best_bid is the top bid).  The price before
\* rounding is kept as a numerator over 10000.
calculate_dynamic_buy_price(current_price, book, best_bid) ==
    LET raw == IF book = "bids" THEN best_bid * 10001
               ELSE IF book = "empty" THEN current_price * 10002
               ELSE current_price * 10001
        max_reasonable_price == current_price * 10100
    IN RoundDiv(Min(raw, max_reasonable_price), 10000)

\* 1000 * max_total_trade_amount (strategy.py 104-105).
MaxTotalTradeAmount1000(account_balance, current_price) ==
    account_balance * MAX_ACCOUNT_USAGE_PERCENT * get_risk_multiplier(current_price)

\* 1000 * remaining_budget (strategy.py 116).
RemainingBudget1000(account_balance, current_price, total_open_order_value) ==
    MaxTotalTradeAmount1000(account_balance, current_price) - 1000 * total_open_order_value

\* round(max_volume, lot_decimals) of strategy.py 140, by the arithmetic of
\* VolumeToTrade below.
RoundedVolume(account_balance, current_price, total_open_order_value) ==
    RoundDiv(RemainingBudget1000(account_balance, current_price, total_open_order_value)
                 * MAX_TRADE_SIZE_PERCENT * get_risk_multiplier(current_price),
             ((1000 * 1000) \div FeeDenom) * current_price * FeeNumer)

\* volume_to_trade (strategy.py 123-140), for fees = 0.0026 and lot_decimals = 0:
\*   remaining / (price * (1 + fees)) * (MAX_TRADE_SIZE_PERCENT * risk_multiplier)
\* = remaining1000 * pct * tenths / ((1000 * 1000 / FeeDenom) * price * FeeNumer).
VolumeNotRaised(account_balance, current_price, total_open_order_value, ordermin) ==
    RoundedVolume(account_balance, current_price, total_open_order_value)
VolumeToTrade(account_balance, current_price, total_open_order_value, ordermin) ==
    LET remaining == RemainingBudget1000(account_balance, current_price, total_open_order_value)
        numer == remaining * MAX_TRADE_SIZE_PERCENT * get_risk_multiplier(current_price)
        denom == ((1000 * 1000) \div FeeDenom) * current_price * FeeNumer
    IN Max(RoundDiv(numer, denom), ordermin)

\* The limit check of strategy.py 168: the order is refused when it does not hold.
WithinLimitNoLedger(total_open_order_value, order_value, max1000) ==
    1000 * order_value <= max1000

WithinLimit(total_open_order_value, order_value, max1000) ==
    1000 * (total_open_order_value + order_value) <= max1000

\* The refusals of strategy.py 116-171: no budget left, no volume, or the order
\* would take the ledger over the limit.
RefusedForVolumeOnly(remaining, volume_to_trade, total_open_order_value, order_value, max1000) ==
    volume_to_trade <= 0
Refused(remaining, volume_to_trade, total_open_order_value, order_value, max1000) ==
    \/ remaining <= 0
    \/ volume_to_trade <= 0
    \/ ~WithinLimit(total_open_order_value, order_value, max1000)

\* The parameters of place_buy_order and place_sell_order after self:
\* (pair, volume, price) in bitmart.py 122 and 145, (pair, volume, price,
\* leverage=None) in kraken.py 271 and 275.
PlaceParameters(e) == IF e = "bitmart" THEN 3 ELSE 4

\* strategy.py 199 and order_manager.py 518 pass PlaceArguments arguments; the
\* call reaches the client's method when the method takes that many, and
\* raises a TypeError before the method runs otherwise.
ReachesExchange(e) == PlaceArguments <= PlaceParameters(e)

\* What place_buy_order can answer (strategy.py 199): BitMart's method takes
\* no leverage argument, so the four-argument call raises there.
PlaceOutcomes(e) == IF ReachesExchange(e) THEN {"ok", "none", "raise"} ELSE {"raise"}

(***************************************************************************)
(* utils/profit.py: the matcher the bot runs (utils/session.py record_trade *)
(* calls it for every sell).  A buy is a record [txid, pair, volume, price, *)
(* fee, closetm]; a fee is an amount of money for the whole order.          *)
(***************************************************************************)
\* filled_buy_orders.sort(key=txid) (profit.py 92): the buys as a sequence in
\* increasing txid.
RECURSIVE SortByTxid(_)
SortByTxid(S) ==
    IF S = {} THEN <<>>
    ELSE LET b == CHOOSE x \in S : \A y \in S : x.txid <= y.txid
         IN <<b>> \o SortByTxid(S \ {b})

\* The FIFO comment of profit.py 91 taken at its word: the buys by fill time.
RECURSIVE SortByTime(_)
SortByTime(S) ==
    IF S = {} THEN <<>>
    ELSE LET b == CHOOSE x \in S : \A y \in S :
                      x.closetm < y.closetm \/ (x.closetm = y.closetm /\ x.txid <= y.txid)
         IN <<b>> \o SortByTime(S \ {b})

\* The matching loop of profit.py 95-113 from buy k on: acc carries
\* remaining_sell_volume, total_cost, total_buy_fees and, as history, the
\* volume taken from each buy.
RECURSIVE MatchVolumes(_, _, _)
MatchVolumes(buys, k, acc) ==
    IF k > Len(buys) \/ acc.remaining <= 0 THEN acc
    ELSE LET buy_volume == buys[k].volume
             matched_volume == Min(acc.remaining, buy_volume)
             matched_cost == matched_volume * buys[k].price
             matched_fee == IF buy_volume > 0
                            THEN (buys[k].fee * matched_volume) \div buy_volume
                            ELSE 0
         IN MatchVolumes(buys, k + 1,
                [remaining |-> acc.remaining - matched_volume,
                 total_cost |-> acc.total_cost + matched_cost,
                 total_buy_fees |-> acc.total_buy_fees + matched_fee,
                 taken |-> Append(acc.taken, [txid |-> buys[k].txid, volume |-> matched_volume])])

\* calculate_trade_profit (profit.py 83-123) on the filled buys of the sell's
\* pair: None when there is nothing to match, else the profit.
calculate_trade_profit(sell_trade, filled_buy_orders) ==
    IF filled_buy_orders = {} \/ sell_trade.volume <= 0 THEN None
    ELSE LET m == MatchVolumes(SortByTxid(filled_buy_orders), 1,
                     [remaining |-> sell_trade.volume, total_cost |-> 0,
                      total_buy_fees |-> 0, taken |-> <<>>])
             sell_revenue == sell_trade.volume * sell_trade.price
             total_cost_with_fees == m.total_cost + m.total_buy_fees + sell_trade.fees
         IN [profit |-> sell_revenue - total_cost_with_fees,
             cost |-> m.total_cost + m.total_buy_fees,
             taken |-> m.taken, remaining |-> m.remaining]

(***************************************************************************)
(* The exchange clients' answers, from the orders the exchange holds.      *)
(***************************************************************************)
\* get_closed_orders(since): Kraken lists the closed and the canceled orders;
\* BitMart's client keeps the filled orders created since `since`
\* (bitmart.py 293-299).
ClosedResponse(e, t) ==
    IF e = "bitmart"
    THEN {i \in OnExchange(e, "closed") : orders[i].opentm >= t - Lookback}
    ELSE OnExchange(e, "closed") \cup OnExchange(e, "canceled")

\* descr.price of an open order: Kraken fills it in, BitMart's client builds a
\* descr without a price (bitmart.py 199-207), read as 0 by order_manager.py 40.
DescrPrice(e, o) == IF e = "bitmart" THEN 0 ELSE o.price

\* The filled buys calculate_trade_profit collects (profit.py 29-81), always
\* from a Kraken client (session.py 19-21).
FilledBuyOrders(pair, t) ==
    {[txid |-> i, pair |-> orders[i].pair, volume |-> orders[i].vol,
      price |-> orders[i].price, fee |-> 0, closetm |-> orders[i].closetm] :
        i \in {j \in ClosedResponse("kraken", t) :
                  /\ ~(orders[j].closetm # 0 /\ t - orders[j].closetm > Lookback)
                  /\ orders[j].side = "buy" /\ orders[j].st = "closed"
                  /\ orders[j].pair = pair /\ orders[j].shape = "ok"}}

(***************************************************************************)
(* utils/session.py record_trade: the trade record as appended to the file. *)
(***************************************************************************)
TradeRecord(txid, o, t) ==
    LET trade_data == [type |-> o.side, pair |-> o.pair, price |-> o.price,
                       volume |-> o.vol, fees |-> 0, order_id |-> txid,
                       timestamp |-> o.closetm]
        p == calculate_trade_profit(trade_data, FilledBuyOrders(o.pair, t))
    IN [type |-> o.side, pair |-> o.pair, price |-> o.price, volume |-> o.vol,
        fees |-> 0, order_id |-> txid, timestamp |-> o.closetm,
        actual_profit |-> IF o.side = "sell" /\ p # None THEN p.profit ELSE None]

(***************************************************************************)
(* trading/order_manager.py check_and_record_completed_trades              *)
(***************************************************************************)
\* One pass of the loop of order_manager.py 232-290 over the closed orders in
\* the order `seq` of the response.  acc holds the in-memory recorded_orders,
\* what was appended and updated so far, filled_buy_order_value, and whether
\* a KeyError has ended the loop.
RECURSIVE RecordLoop(_, _, _, _, _)
RecordLoop(seq, k, acc, e, t) ==
    IF k > Len(seq) \/ acc.aborted THEN acc
    ELSE LET txid == seq[k]
             o == orders[txid]
         IN IF acc.recorded[txid] # "none" THEN RecordLoop(seq, k + 1, acc, e, t)
            ELSE IF o.st # "closed" THEN RecordLoop(seq, k + 1, acc, e, t)
            ELSE IF o.closetm # 0 /\ t - o.closetm > Lookback THEN RecordLoop(seq, k + 1, acc, e, t)
            ELSE IF o.shape # "ok" THEN [acc EXCEPT !.aborted = TRUE]
            ELSE RecordLoop(seq, k + 1,
                    [acc EXCEPT
                        !.filled = @ + (IF o.side = "buy" THEN Value(o) ELSE 0),
                        !.trades = Append(@, TradeRecord(txid, o, t)),
                        !.metrics = [@ EXCEPT !.total_trades = @ + 1],
                        !.trained = Append(@, txid),
                        !.positions = update_position_status(@, txid, "filled", e, t),
                        !.recorded = [@ EXCEPT ![txid] = "closed"]],
                    e, t)

\* record_open_order (order_manager.py 154-190): reads the file, adds the id
\* as open, writes the file back.
record_open_order(recorded_orders, order_id) == [recorded_orders EXCEPT ![order_id] = "open"]

\* The per-exchange loops of bot.py 254-292: the next exchange of this phase,
\* or the first exchange of the next phase.
Advance(next) ==
    IF exi < Len(ExchangeOrder)
    THEN exi' = exi + 1 /\ pc' = pc
    ELSE exi' = 1 /\ pc' = next

check_and_record_completed_trades(e) ==
    /\ pc = "record" /\ ExchangeOrder[exi] = e
    /\ Advance("manage")
    /\ \E answered \in BOOLEAN :
         IF ~answered
         THEN \* get_closed_orders gave nothing, or raised (order_manager.py 205-208, 306)
              /\ UNCHANGED <<ledger, recorded, trades, metrics, trained, positions>>
              /\ ev' = [op |-> "record", ex |-> e, answered |-> FALSE, aborted |-> FALSE,
                        seen |-> {}]
         ELSE \E seq \in Orderings(ClosedResponse(e, now)) :
              LET acc == RecordLoop(seq, 1,
                            [recorded |-> recorded, trades |-> trades, metrics |-> metrics,
                             trained |-> trained, positions |-> positions[e],
                             filled |-> 0, aborted |-> FALSE], e, now)
              IN /\ trades' = acc.trades
                 /\ metrics' = acc.metrics
                 /\ trained' = acc.trained
                 /\ positions' = [positions EXCEPT ![e] = acc.positions]
                 /\ IF acc.aborted
                    THEN UNCHANGED <<ledger, recorded>>
                    ELSE /\ ledger' = IF acc.filled > 0
                                      THEN [ledger EXCEPT ![e] = Max(0, @ - acc.filled)]
                                      ELSE ledger
                         /\ recorded' = acc.recorded
                 /\ ev' = [op |-> "record", ex |-> e, answered |-> TRUE,
                           aborted |-> acc.aborted, seen |-> ClosedResponse(e, now)]
    /\ UNCHANGED <<now, cyc, orders, balance, canceledAny, todo>>
    /\ UNCHANGED notCycle

(***************************************************************************)
(* trading/order_manager.py manage_open_orders                             *)
(***************************************************************************)
\* The classification of one open order (order_manager.py 31-114): "skip"
\* (not counted), "keep" (counted) or "cancel" (counted and marked).  tick is
\* the ticker's last price for the order's pair, 0 when there is no ticker.
ClassifyOrderExpiringBuysOnly(e, o, t, tick) ==
    LET price == DescrPrice(e, o)
        time_open == t - o.opentm
    IN IF o.shape = "nofields" \/ price <= 0 \/ o.vol <= 0 THEN "skip"
       ELSE IF o.side = "buy" /\ time_open > ExpireAge THEN "cancel"
       ELSE IF /\ time_open > ReviewAge
               /\ tick # 0
               /\ o.side = "buy"
               /\ (100 * tick < 95 * price \/ 100 * tick > 102 * price)
            THEN "cancel"
       ELSE "keep"

ClassifyOrder(e, o, t, tick) ==
    LET price == DescrPrice(e, o)
        time_open == t - o.opentm
    IN IF o.shape = "nofields" THEN "skip"
       ELSE IF price <= 0 THEN "skip"
       ELSE IF o.vol <= 0 THEN "skip"
       ELSE IF time_open > ExpireAge THEN "cancel"
       ELSE IF /\ time_open > ReviewAge
               /\ tick # 0
               /\ o.side = "buy"
               /\ (100 * tick < 95 * price \/ 100 * tick > 102 * price)
            THEN "cancel"
       ELSE "keep"

\* The pairs get_ticker is asked for in one pass (order_manager.py 81-86): those
\* of the valid open orders between the two age bands; and what it can answer
\* for a pair, 0 standing for no ticker.
InReview(e) ==
    {orders[i].pair : i \in {j \in OnExchange(e, "open") :
                                /\ orders[j].shape # "nofields"
                                /\ DescrPrice(e, orders[j]) > 0 /\ orders[j].vol > 0
                                /\ now - orders[j].opentm > ReviewAge
                                /\ now - orders[j].opentm <= ExpireAge}}
TickerPrices == MarketPrices \cup ManageMarketPrices

OpenValue(e, i) == DescrPrice(e, orders[i]) * orders[i].vol

\* The ledger entry manage_open_orders leaves (order_manager.py 118-142).
LedgerAfterManage(total_open_order_value, canceled_value) ==
    IF canceled_value > 0
    THEN Max(0, total_open_order_value - canceled_value)
    ELSE total_open_order_value

manage_open_orders(e) ==
    /\ pc = "manage" /\ ExchangeOrder[exi] = e
    /\ Advance("place")
    /\ \E answered \in BOOLEAN :
         IF ~answered
         THEN \* get_open_orders gave nothing or raised (bot.py 273, order_manager.py 22-24)
              /\ UNCHANGED <<ledger, orders, canceledAny>>
              /\ ev' = [op |-> "manage", ex |-> e, answered |-> FALSE,
                        skipped |-> {}, marked |-> {}, canceled |-> {}, ticker |-> <<>>,
                        returned |-> FALSE]
         ELSE \E ticker \in [InReview(e) -> TickerPrices \cup {0}] :
              LET open == OnExchange(e, "open")
                  class == [i \in open |->
                              ClassifyOrder(e, orders[i], now,
                                            IF orders[i].pair \in DOMAIN ticker
                                            THEN ticker[orders[i].pair] ELSE 0)]
                  counted == {i \in open : class[i] # "skip"}
                  orders_to_cancel == {i \in open : class[i] = "cancel"}
                  total_open_order_value == SumOver(counted, [i \in counted |-> OpenValue(e, i)])
                  canceled_value == SumOver(orders_to_cancel,
                                            [i \in orders_to_cancel |-> OpenValue(e, i)])
              IN \E canceled \in SUBSET orders_to_cancel :
                   /\ ledger' = [ledger EXCEPT
                                   ![e] = LedgerAfterManage(total_open_order_value, canceled_value)]
                   /\ orders' = [i \in OrderIds |->
                                   IF i \in canceled
                                   THEN [orders[i] EXCEPT !.st = "canceled", !.closetm = now]
                                   ELSE orders[i]]
                   /\ canceledAny' = (canceledAny \/ orders_to_cancel # {})
                   /\ ev' = [op |-> "manage", ex |-> e, answered |-> TRUE,
                             skipped |-> open \ counted,
                             marked |-> orders_to_cancel, canceled |-> canceled,
                             ticker |-> ticker, returned |-> orders_to_cancel # {}]
    /\ UNCHANGED <<now, cyc, balance, recorded, trades, metrics, trained, positions, todo>>
    /\ UNCHANGED notCycle

(***************************************************************************)
(* trading/strategy.py simple_trading_strategy, called from bot.py 388 for  *)
(* a pair the placing loop found tradable on exchange e.                    *)
(***************************************************************************)
simple_trading_strategy(pair, current_price, account_balance, ordermin, e, book, best_bid, outcome) ==
    LET total_open_order_value == ledger[e]
        max1000 == MaxTotalTradeAmount1000(account_balance, current_price)
        remaining == RemainingBudget1000(account_balance, current_price, total_open_order_value)
        volume_to_trade == VolumeToTrade(account_balance, current_price,
                                         total_open_order_value, ordermin)
        buy_price == calculate_dynamic_buy_price(current_price, book, best_bid)
        order_value == buy_price * volume_to_trade
        refused == Refused(remaining, volume_to_trade, total_open_order_value,
                           order_value, max1000)
        accepted == ~refused /\ outcome = "ok"
        order_id == NextId
    IN /\ accepted => FreeIds # {}
       /\ ev' = IF refused
                THEN [op |-> "refuse", ex |-> e, total |-> total_open_order_value,
                      price |-> current_price, ordermin |-> ordermin,
                      volume |-> volume_to_trade, order_value |-> order_value]
                ELSE [op |-> "buy", ex |-> e, accepted |-> accepted,
                      total |-> total_open_order_value, order_value |-> order_value,
                      price |-> current_price, ordermin |-> ordermin,
                      volume |-> volume_to_trade, reached |-> ReachesExchange(e)]
       /\ IF accepted
          THEN /\ orders' = [orders EXCEPT ![order_id] =
                                [ex |-> e, side |-> "buy", pair |-> pair, price |-> buy_price,
                                 vol |-> volume_to_trade, opentm |-> now, st |-> "open",
                                 closetm |-> 0, shape |-> "ok"]]
               /\ ledger' = [ledger EXCEPT ![e] = total_open_order_value + order_value]
               /\ recorded' = record_open_order(recorded, order_id)
               /\ metrics' = [metrics EXCEPT !.orders_placed = @ + 1]
               /\ positions' = [positions EXCEPT ![e] =
                                   add_open_position(@, pair, order_id, "buy", volume_to_trade,
                                                     buy_price, e, now)]
          ELSE UNCHANGED <<orders, ledger, recorded, metrics, positions>>

\* bot.py 299-323: discovery fixes the pairs this cycle's placing loop visits.
Discover ==
    /\ pc = "place" /\ todo = None
    /\ \E found \in SUBSET Pairs : todo' = [pairs |-> found]
    /\ ev' = [op |-> "discover"]
    /\ UNCHANGED <<pc, exi, now, cyc, orders, ledger, balance, recorded, trades,
                   metrics, trained, positions, canceledAny>>
    /\ UNCHANGED notCycle

\* bot.py 326-406, one pair of the loop: the pair is passed over (no exchange,
\* no ticker, price above the ceiling, too many positions, not profitable, no
\* balance) or the strategy is called on the selected exchange.
ProcessPair ==
    /\ pc = "place" /\ todo # None
    /\ \E pair \in todo.pairs :
         /\ todo' = [pairs |-> todo.pairs \ {pair}]
         /\ \/ /\ ev' = [op |-> "pass"]
               /\ UNCHANGED <<orders, ledger, recorded, metrics, positions>>
            \/ \E e \in Exchanges, current_price \in Prices, ordermin \in OrderMins,
                  book \in {"none", "empty", "bids"}, off \in BidOffsets,
                  outcome \in {"ok", "none", "raise"} :
                 /\ outcome \in PlaceOutcomes(e)
                 /\ book # "bids" => off = -1
                 /\ Cardinality(get_open_positions_for_pair(positions[e], pair)) < MAX_ORDERS_PER_PAIR
                 /\ balance[e] > 0
                 /\ simple_trading_strategy(pair, current_price, balance[e], ordermin, e,
                                            book, current_price + off, outcome)
    /\ UNCHANGED <<pc, exi, now, cyc, balance, trades, trained, canceledAny>>
    /\ UNCHANGED notCycle

\* bot.py 408-418: the loop is through; the cycle sleeps.
Sleep ==
    /\ pc = "place" /\ todo # None /\ todo.pairs = {}
    /\ cyc < MaxCycles
    /\ \E dt \in Sleeps : now' = now + dt
    /\ cyc' = cyc + 1
    /\ pc' = "record" /\ exi' = 1
    /\ canceledAny' = FALSE
    /\ todo' = None
    /\ ev' = [op |-> "sleep"]
    /\ UNCHANGED <<orders, ledger, balance, recorded, trades, metrics, trained, positions>>
    /\ UNCHANGED notCycle

(***************************************************************************)
(* The exchange side: an open order fills; an order reaches the account    *)
(* from outside the placing loop.  The exchange acts while the loop sleeps *)
(* (bot.py 418), which is where nearly all of a cycle's time goes.         *)
(***************************************************************************)
ExchangeActs == pc = "place" /\ todo # None /\ todo.pairs = {}

Fill ==
    /\ ExchangeActs
    /\ \E i \in OrderIds :
         /\ orders[i] # None /\ orders[i].st = "open"
         /\ orders' = [orders EXCEPT ![i] = [@ EXCEPT !.st = "closed", !.closetm = now]]
         /\ ev' = [op |-> "fill", id |-> i]
    /\ UNCHANGED <<pc, exi, now, cyc, ledger, balance, recorded, trades, metrics, trained,
                   positions, canceledAny, todo>>
    /\ UNCHANGED notCycle

ExternalOrder ==
    /\ ExchangeActs
    /\ FreeIds # {}
    /\ \E e \in Exchanges, side \in ExternalSides, pair \in Pairs, price \in ExternalPrices,
          vol \in ExternalVolumes, shape \in Shapes :
         /\ orders' = [orders EXCEPT ![NextId] =
                          [ex |-> e, side |-> side, pair |-> pair, price |-> price,
                           vol |-> vol, opentm |-> now, st |-> "open", closetm |-> 0,
                           shape |-> shape]]
         /\ ev' = [op |-> "external", id |-> NextId]
    /\ UNCHANGED <<pc, exi, now, cyc, ledger, balance, recorded, trades, metrics, trained,
                   positions, canceledAny, todo>>
    /\ UNCHANGED notCycle

CycleInit ==
    /\ pc = "record" /\ exi = 1
    /\ now = 10000 /\ cyc = 0
    /\ orders = [i \in OrderIds |-> None]
    /\ ledger = [e \in Exchanges |-> 0]
    /\ balance \in [Exchanges -> Balances]
    /\ recorded = [i \in OrderIds |-> "none"]
    /\ trades = <<>>
    /\ metrics = [total_trades |-> 0, orders_placed |-> 0]
    /\ trained = <<>>
    /\ positions = [e \in Exchanges |-> <<>>]
    /\ canceledAny = FALSE
    /\ todo = None
    /\ ev = [op |-> "init"]

Next ==
    \/ \E e \in Exchanges : check_and_record_completed_trades(e)
    \/ \E e \in Exchanges : manage_open_orders(e)
    \/ Discover
    \/ ProcessPair
    \/ Sleep
    \/ Fill
    \/ ExternalOrder

(***************************************************************************)
(* bot.py get_cached_balance                                               *)
(***************************************************************************)
\* What exchange.get_balance() can do (bot.py 86-127): return None, return a
\* dict whose error list names a rate limit, return a balance dict, return a
\* dict with some other error, return something that is no non-empty dict,
\* raise with a rate-limit message, raise anything else.
Responses == {"none", "rate_limit_error", "balance", "other_error", "unexpected",
              "rate_limit_exception", "exception"}

\* The dict a response of that kind carries; d tells two balance dicts apart.
ResponseData(response, d) ==
    IF response = "balance" THEN [balances |-> d] ELSE [error |-> "EAPI:Invalid key"]

\* 2 ** attempt
RECURSIVE Pow2(_)
Pow2(n) == IF n = 0 THEN 1 ELSE 2 * Pow2(n - 1)

max_retries == 3

\* wait_time (bot.py 93, 102, 119)
BackoffEveryFive(attempt) == (attempt + 1) * 5
wait_time(attempt) == Pow2(attempt) * 5

\* The cache test of bot.py 79.
CacheFreshIgnoringForce(force_refresh, cache_entry, current_time) ==
    /\ cache_entry.data # None
    /\ current_time - cache_entry.timestamp < BALANCE_CACHE_DURATION
CacheFresh(force_refresh, cache_entry, current_time) ==
    /\ ~force_refresh
    /\ cache_entry.data # None
    /\ current_time - cache_entry.timestamp < BALANCE_CACHE_DURATION

Returned == call # None /\ call.pc = "returned"
Fetching == call # None /\ call.pc = "fetch"

\* bot.py 71-83: the call reads the clock and the entry, and either returns the
\* cached data or enters the retry loop.
get_cached_balance(e, force_refresh) ==
    /\ call = None \/ Returned
    /\ calls < MaxCalls
    /\ calls' = calls + 1
    /\ LET cache_entry == balance_cache[e]
           fresh == CacheFresh(force_refresh, cache_entry, clock)
       IN call' = [ex |-> e, force_refresh |-> force_refresh, current_time |-> clock,
                   found |-> cache_entry, attempt |-> 0, requests |-> 0, failures |-> 0,
                   sleeps |-> <<>>, fatal_at |-> 0, timeout_at |-> 0,
                   pc |-> IF fresh THEN "returned" ELSE "fetch",
                   result |-> IF fresh THEN cache_entry.data ELSE None]
    /\ UNCHANGED <<balance_cache, clock>>
    /\ UNCHANGED notBalance

\* What get_balance does when the request times out or the connection fails.
\* Kraken: kraken_request catches the RequestException and returns None
\* (kraken.py 37-47), and get_account_balance_kraken then evaluates
\* None["result"] (kraken.py 57), a TypeError.  BitMart: get_balance catches
\* the exception and returns None (bitmart.py 48-50).
get_balance_on_timeout(e) == IF e = "kraken" THEN "exception" ELSE "none"

\* bot.py 84-133, one pass of the retry loop: the request, what follows from
\* its answer, and the return once the loop is left.  As history the call
\* keeps the number of its last request that failed without being taken for a
\* rate limit (fatal_at) and of its last request that timed out (timeout_at).
Attempt(response, d, timed_out) ==
    /\ Fetching
    /\ call.attempt < max_retries
    /\ timed_out => response = get_balance_on_timeout(call.ex)
    /\ LET attempt == call.attempt
           sent == [call EXCEPT !.requests = @ + 1,
                                !.fatal_at = IF response \in {"exception", "unexpected"}
                                             THEN call.requests + 1 ELSE @,
                                !.timeout_at = IF timed_out THEN call.requests + 1 ELSE @]
           rate_limited == response \in {"none", "rate_limit_error", "rate_limit_exception"}
           secs == IF rate_limited THEN wait_time(attempt)
                   ELSE IF response = "unexpected" /\ attempt < max_retries - 1 THEN 2
                   ELSE 0
           failed == [sent EXCEPT !.failures = @ + 1]
           slept == IF secs > 0
                    THEN [failed EXCEPT !.sleeps = Append(@, [attempt |-> attempt,
                                                             rate_limited |-> rate_limited,
                                                             secs |-> secs])]
                    ELSE failed
       IN IF response \in {"balance", "other_error"}
          THEN \* bot.py 108-112
               /\ balance_cache' = [balance_cache EXCEPT ![call.ex] =
                                       [data |-> ResponseData(response, d),
                                        timestamp |-> call.current_time]]
               /\ call' = [sent EXCEPT !.pc = "returned", !.result = ResponseData(response, d)]
               /\ clock' = clock
          ELSE /\ balance_cache' = balance_cache
               /\ clock' = clock + secs
               /\ call' = IF response = "exception" \/ attempt + 1 = max_retries
                          THEN [slept EXCEPT !.pc = "returned", !.result = None]
                          ELSE [slept EXCEPT !.attempt = attempt + 1]
    /\ UNCHANGED calls
    /\ UNCHANGED notBalance

\* Time passes between two calls.
Elapse ==
    /\ Returned
    /\ calls < MaxCalls
    /\ clock - ClockStart < MaxElapsed
    /\ \E dt \in Elapses : clock' = clock + dt
    /\ UNCHANGED <<balance_cache, call, calls>>
    /\ UNCHANGED notBalance

\* bot.py 65-67
BalanceInit ==
    /\ balance_cache = [e \in Exchanges |-> [data |-> None, timestamp |-> 0]]
    /\ clock = ClockStart
    /\ call = None
    /\ calls = 0

NextBalance ==
    \/ \E e \in Exchanges, force_refresh \in BOOLEAN : get_cached_balance(e, force_refresh)
    \/ \E response \in Responses, d \in BalanceData : Attempt(response, d, FALSE)
    \/ Elapse

\* The same calls, with the requests that time out told apart from the others.
NextFetch ==
    \/ \E e \in Exchanges, force_refresh \in BOOLEAN : get_cached_balance(e, force_refresh)
    \/ \E response \in Responses, d \in BalanceData, timed_out \in BOOLEAN :
         Attempt(response, d, timed_out)
    \/ Elapse

(***************************************************************************)
(* utils/session.py record_trade with utils/profit.py, on their own: buys  *)
(* fill on the exchange, and each sell fill is handed to record_trade.     *)
(***************************************************************************)
\* The filled buys of the pair among the closed orders of the last 30 minutes
\* (profit.py 20-81).
CollectFilledBuys(pair, t) ==
    {b \in fills : b.pair = pair /\ ~(b.closetm # 0 /\ t - b.closetm > Lookback)}

FreeTxids == Txids \ ({b.txid : b \in fills} \cup {file[n].order_id : n \in 1..Len(file)})

\* The volume record_trade's matcher took from each buy (profit.py 107), added
\* to what earlier sells took.
RECURSIVE Consume(_, _, _)
Consume(c, taken, k) ==
    IF k > Len(taken) THEN c
    ELSE Consume([c EXCEPT ![taken[k].txid] = @ + taken[k].volume], taken, k + 1)

\* A buy order fills: the exchange lists it as closed, and its fill is recorded
\* (session.py 23-24; a buy gets no actual_profit).
BuyFilled ==
    /\ FreeTxids # {}
    /\ \E txid \in FreeTxids, pair \in Pairs, volume \in BuyVolumes, price \in BuyPrices,
          fee \in BuyFees, dt \in Waits :
         /\ wall' = wall + dt
         /\ fills' = fills \cup {[txid |-> txid, pair |-> pair, volume |-> volume,
                                  price |-> price, fee |-> fee, closetm |-> wall + dt]}
         /\ file' = Append(file, [type |-> "buy", pair |-> pair, price |-> price,
                                  volume |-> volume, fees |-> fee, order_id |-> txid,
                                  timestamp |-> wall + dt])
         /\ last' = [op |-> "buy", order_id |-> txid]
    /\ UNCHANGED consumed
    /\ UNCHANGED notProfit

\* record_trade(trade_data) for a sell fill (session.py 12-31).
record_trade ==
    /\ FreeTxids # {}
    /\ \E txid \in FreeTxids, pair \in Pairs, volume \in SellVolumes, price \in SellPrices,
          fees \in SellFees, dt \in Waits :
         LET trade_data == [type |-> "sell", pair |-> pair, price |-> price,
                            volume |-> volume, fees |-> fees, order_id |-> txid,
                            timestamp |-> wall + dt]
             buys == CollectFilledBuys(pair, wall + dt)
             profit == calculate_trade_profit(trade_data, buys)
         IN /\ wall' = wall + dt
            /\ file' = Append(file, [type |-> "sell", pair |-> pair, price |-> price,
                                     volume |-> volume, fees |-> fees, order_id |-> txid,
                                     timestamp |-> wall + dt,
                                     actual_profit |-> IF profit = None THEN None
                                                       ELSE profit.profit])
            /\ consumed' = IF profit = None THEN consumed
                           ELSE Consume(consumed, profit.taken, 1)
            /\ last' = [op |-> "sell", trade |-> trade_data, buys |-> buys,
                        result |-> profit,
                        first |-> \A t \in Txids : consumed[t] = 0]
    /\ UNCHANGED fills
    /\ UNCHANGED notProfit

ProfitInit ==
    /\ fills = {}
    /\ file = <<>>
    /\ consumed = [t \in Txids |-> 0]
    /\ wall = 1000
    /\ last = [op |-> "init"]

NextProfit ==
    \/ BuyFilled
    \/ record_trade

(***************************************************************************)
(* exchanges/comparison.py                                                 *)
(***************************************************************************)
\* What one exchange answers for the pair: get_ticker returns nothing, raises
\* or reports a last price; get_order_book returns nothing, raises or reports
\* bids and asks of a total depth.
Quotes ==
    {q \in [ticker : TickerAnswers, price : QuotePrices, book : BookAnswers, depth : Depths] :
        /\ q.ticker # "ok" => q.price = 0
        /\ q.book # "ok" => q.depth = 0}

\* One pass of the loop of compare_exchanges (comparison.py 45-98): the entry
\* appended for exchange e, or None when the exchange is passed over.
CompareOne(e, q) ==
    IF q.ticker # "ok" THEN None
    ELSE IF q.price <= 0 THEN None
    ELSE IF q.book = "raise" THEN None
    ELSE LET liquidity_score == IF q.book = "ok" THEN q.depth * q.price ELSE 0
         IN [name |-> e, score |-> liquidity_score \div q.price, price |-> q.price,
             liquidity |-> liquidity_score]

RECURSIVE CompareLoop(_, _, _)
CompareLoop(exchanges, q, k) ==
    IF k > Len(exchanges) THEN <<>>
    ELSE LET r == CompareOne(exchanges[k], q[exchanges[k]])
         IN (IF r = None THEN <<>> ELSE <<r>>) \o CompareLoop(exchanges, q, k + 1)

\* comparison_results.sort(key=score, reverse=True) (comparison.py 101): by
\* falling score, entries of equal score in the order they were appended.
RECURSIVE SortByScore(_)
SortByScore(results) ==
    IF results = <<>> THEN <<>>
    ELSE LET best == CHOOSE k \in 1..Len(results) :
                        /\ \A j \in 1..Len(results) : results[j].score <= results[k].score
                        /\ \A j \in 1..(k - 1) : results[j].score < results[k].score
         IN <<results[best]>>
            \o SortByScore([j \in 1..(Len(results) - 1) |->
                              IF j < best THEN results[j] ELSE results[j + 1]])

compare_exchanges(exchanges, q) == SortByScore(CompareLoop(exchanges, q, 1))

\* select_best_exchange (comparison.py 105-145): the exchange it returns, or
\* None.
SelectFirstAppended(exchanges, q) ==
    IF exchanges = <<>> \/ CompareLoop(exchanges, q, 1) = <<>> THEN None
    ELSE [name |-> CompareLoop(exchanges, q, 1)[1].name]
select_best_exchange(exchanges, q) ==
    IF exchanges = <<>> THEN None
    ELSE LET comparison_results == compare_exchanges(exchanges, q)
         IN IF comparison_results = <<>> THEN None
            ELSE [name |-> comparison_results[1].name]

\* The placing loop asks for the best exchange of a pair (bot.py 331); one call.
SelectExchange ==
    /\ quotes = None
    /\ \E exchanges \in {ExchangeOrder, <<"kraken">>, <<"bitmart">>} :
         \E q \in [Exchanges -> Quotes] :
            /\ quotes' = [exchanges |-> exchanges, q |-> q]
            /\ choice' = select_best_exchange(exchanges, q)
    /\ UNCHANGED notSelect

SelectInit ==
    /\ quotes = None
    /\ choice = None

NextSelect == SelectExchange

(***************************************************************************)
(* main (bot.py 136-449): start-up, the trading loop seen from outside,    *)
(* and the shutdown.                                                       *)
(***************************************************************************)
\* What get_cached_balance can answer for one exchange at start-up: nothing,
\* a balance without USDT, a positive USDT balance, or an amount that float()
\* rejects.
BalanceAnswers == {"none", "zero", "positive", "malformed"}

Environs ==
    [kraken_enabled : BOOLEAN, kraken_keys : BOOLEAN,
     bitmart_enabled : BOOLEAN, bitmart_keys : BOOLEAN, bitmart_client : BOOLEAN]

\* bot.py 166-188: the exchanges main initialises.
InitialisedExchanges(en) ==
    (IF en.kraken_enabled /\ en.kraken_keys THEN {"kraken"} ELSE {})
    \cup (IF en.bitmart_enabled /\ en.bitmart_keys /\ en.bitmart_client THEN {"bitmart"} ELSE {})

\* bot.py 136-193: the session metrics start with the reason 'normal'; with no
\* exchange main returns at line 193, before the try statement of line 199.
MainStart ==
    /\ mpc = "start"
    /\ \E en \in Environs, interrupt \in BOOLEAN :
         /\ environ' = en
         \* Ctrl-C while the exchange clients are built (lines 166-188) is
         \* raised outside the try statement
         /\ main_exchanges' = IF interrupt THEN {} ELSE InitialisedExchanges(en)
         /\ mpc' = IF interrupt \/ InitialisedExchanges(en) = {} THEN "exited" ELSE "startup"
         /\ interrupted' = IF interrupt THEN "initialising" ELSE interrupted
    /\ UNCHANGED <<balance_response, exchange_usdt_balances, shutdown_reason,
                   errors_encountered, summary_file, summaries>>
    /\ UNCHANGED notMain

\* bot.py 199-247 and 430-434: the balances of the exchanges; an amount that
\* float() rejects is a fatal error, no positive balance anywhere is
\* 'no_balance', and both leave through the finally clause.
MainStartup ==
    /\ mpc = "startup"
    /\ \/ \E answers \in [main_exchanges -> BalanceAnswers] :
            LET fatal == \E e \in main_exchanges : answers[e] = "malformed"
                found == {e \in main_exchanges : answers[e] = "positive"}
            IN /\ balance_response' = answers
               /\ exchange_usdt_balances' = IF fatal THEN {} ELSE found
               /\ shutdown_reason' = IF fatal THEN "fatal_error"
                                     ELSE IF found = {} THEN "no_balance"
                                     ELSE shutdown_reason
               /\ mpc' = IF fatal \/ found = {} THEN "finally" ELSE "loop"
               /\ interrupted' = interrupted
       \* Ctrl-C before the loop: no clause of the try statement of line 199
       \* catches it, the finally clause runs
       \/ /\ interrupted' = "startup"
          /\ mpc' = "finally"
          /\ UNCHANGED <<balance_response, exchange_usdt_balances, shutdown_reason>>
    /\ UNCHANGED <<environ, main_exchanges, errors_encountered, summary_file, summaries>>
    /\ UNCHANGED notMain

\* bot.py 251-428: an iteration that fails is counted and retried after a
\* sleep; Ctrl-C inside the iteration or its closing sleep (line 418) sets 'user_interrupt' and leaves the
\* loop; Ctrl-C during the sleep of the handler (line 426) is caught by no
\* clause and leaves through the finally clause with the reason untouched.
MainLoop ==
    /\ mpc = "loop"
    /\ \E outcome \in {"error", "interrupt", "interrupt_in_sleep", "interrupt_in_handler"} :
         /\ outcome = "error" => errors_encountered < MaxErrors
         /\ errors_encountered' = IF outcome = "error" THEN errors_encountered + 1
                                  ELSE errors_encountered
         /\ shutdown_reason' = IF outcome \in {"interrupt", "interrupt_in_sleep"}
                               THEN "user_interrupt"
                               ELSE shutdown_reason
         /\ mpc' = IF outcome = "error" THEN "loop" ELSE "finally"
         /\ interrupted' = IF outcome = "error" THEN interrupted
                           ELSE IF outcome = "interrupt" THEN "cycle"
                           ELSE IF outcome = "interrupt_in_sleep" THEN "sleep"
                           ELSE "handler"
    /\ UNCHANGED <<environ, main_exchanges, balance_response, exchange_usdt_balances,
                   summary_file, summaries>>
    /\ UNCHANGED notMain

\* What the summary file holds when the summary could not be written.
Unwritten == [failed |-> TRUE]

\* utils/session.py 85-175: the summary states the shutdown reason; an error
\* while writing is logged and nothing is saved.
generate_session_summary(reason, written) ==
    IF written THEN [shutdown_reason |-> reason] ELSE Unwritten

\* bot.py 435-449: the finally clause.
MainFinally ==
    /\ mpc = "finally"
    /\ \E written \in BOOLEAN :
         summary_file' = generate_session_summary(shutdown_reason, written)
    /\ summaries' = summaries + 1
    /\ mpc' = "exited"
    /\ UNCHANGED <<environ, main_exchanges, balance_response, exchange_usdt_balances,
                   shutdown_reason, errors_encountered, interrupted>>
    /\ UNCHANGED notMain

MainInit ==
    /\ mpc = "start"
    /\ environ = None
    /\ main_exchanges = {}
    /\ balance_response = <<>>
    /\ exchange_usdt_balances = {}
    /\ shutdown_reason = "normal"
    /\ errors_encountered = 0
    /\ summary_file = None
    /\ interrupted = "no"
    /\ summaries = 0

NextMain == MainStart \/ MainStartup \/ MainLoop \/ MainFinally

(***************************************************************************)
(* get_sub_cent_tokens (exchanges/kraken.py 183-238): the calling thread   *)
(* and one worker of the pool per pair, each running check_pair.           *)
(***************************************************************************)
\* What the ticker request of a worker gets: no response (response["result"]
\* raises inside check_pair), a result without the pair, or a last price.
DiscAnswers ==
    {[ans |-> "raise", c |-> 0], [ans |-> "missing", c |-> 0]}
    \cup {[ans |-> "ok", c |-> c] : c \in DiscPrices}

\* kraken.py 34: the nonce of a request is the clock in milliseconds.
kraken_request == Append(nonces, ms)

\* kraken.py 203-205: the pair goes into the result map.
Qualifies(a) == a.ans = "ok" /\ a.c <= MAX_TOKEN_PRICE

\* kraken.py 183-193 and 218-223: the asset pairs are requested, the USDT
\* pairs are filtered and one task per pair is submitted.
DiscSubmit ==
    /\ dpc = "idle"
    /\ \E found \in SUBSET DiscPairs :
         /\ usdt_pairs' = found
         /\ \E answers \in [DiscPairs -> DiscAnswers] :
              /\ \A p \in DiscPairs \ found : answers[p] = [ans |-> "missing", c |-> 0]
              /\ ticker_info' = answers
         /\ wpc' = [p \in DiscPairs |-> IF p \in found THEN "submitted" ELSE "none"]
    /\ nonces' = kraken_request
    /\ dpc' = "running"
    /\ UNCHANGED <<lock, sub_cent_tokens, returned_tokens, ms>>
    /\ UNCHANGED notDisc

\* kraken.py 200-215: the worker requests the ticker and decides.
CheckPairTicker(p) ==
    /\ dpc = "running" /\ wpc[p] = "submitted"
    /\ nonces' = kraken_request
    /\ wpc' = [wpc EXCEPT ![p] = IF Qualifies(ticker_info[p]) THEN "acquire" ELSE "done"]
    /\ UNCHANGED <<dpc, usdt_pairs, ticker_info, lock, sub_cent_tokens, returned_tokens, ms>>
    /\ UNCHANGED notDisc

\* kraken.py 206, entering `with lock`: the new holder of the mutex.
BypassLock(holder, p) == holder
Acquire(holder, p) == p

CheckPairAcquire(p) ==
    /\ dpc = "running" /\ wpc[p] = "acquire"
    /\ lock = "free"
    /\ lock' = Acquire(lock, p)
    /\ wpc' = [wpc EXCEPT ![p] = "locked"]
    /\ UNCHANGED <<dpc, usdt_pairs, ticker_info, sub_cent_tokens, returned_tokens, ms, nonces>>
    /\ UNCHANGED notDisc

\* kraken.py 207: the write into the result map.
CheckPairWrite(p) ==
    /\ dpc = "running" /\ wpc[p] = "locked"
    /\ sub_cent_tokens' = sub_cent_tokens \cup {p}
    /\ wpc' = [wpc EXCEPT ![p] = "release"]
    /\ UNCHANGED <<dpc, usdt_pairs, ticker_info, lock, returned_tokens, ms, nonces>>
    /\ UNCHANGED notDisc

\* kraken.py 206-209, leaving `with lock`, and the return of the worker.
CheckPairRelease(p) ==
    /\ dpc = "running" /\ wpc[p] = "release"
    /\ lock' = "free"
    /\ wpc' = [wpc EXCEPT ![p] = "done"]
    /\ UNCHANGED <<dpc, usdt_pairs, ticker_info, sub_cent_tokens, returned_tokens, ms, nonces>>
    /\ UNCHANGED notDisc

\* kraken.py 226-238: as_completed and the exit of the executor's with
\* block wait for every task; then the map is returned.
DiscReturn ==
    /\ dpc = "running"
    /\ \A p \in usdt_pairs : wpc[p] = "done"
    /\ returned_tokens' = sub_cent_tokens
    /\ dpc' = "returned"
    /\ UNCHANGED <<usdt_pairs, ticker_info, wpc, lock, sub_cent_tokens, ms, nonces>>
    /\ UNCHANGED notDisc

\* A millisecond passes.
DiscTick ==
    /\ dpc = "running"
    /\ ms < MaxMs
    /\ ms' = ms + 1
    /\ UNCHANGED <<dpc, usdt_pairs, ticker_info, wpc, lock, sub_cent_tokens,
                   returned_tokens, nonces>>
    /\ UNCHANGED notDisc

DiscInit ==
    /\ dpc = "idle"
    /\ usdt_pairs = {}
    /\ ticker_info = [p \in DiscPairs |-> [ans |-> "missing", c |-> 0]]
    /\ wpc = [p \in DiscPairs |-> "none"]
    /\ lock = "free"
    /\ sub_cent_tokens = {}
    /\ returned_tokens = {}
    /\ ms = 0
    /\ nonces = <<>>

NextDisc ==
    \/ DiscSubmit
    \/ \E p \in DiscPairs : CheckPairTicker(p)
    \/ \E p \in DiscPairs : CheckPairAcquire(p)
    \/ \E p \in DiscPairs : CheckPairWrite(p)
    \/ \E p \in DiscPairs : CheckPairRelease(p)
    \/ DiscReturn
    \/ DiscTick

(***************************************************************************)
(* The position store: add_open_position, update_position_status,          *)
(* cleanup_filled_positions, save_open_positions and load_open_positions   *)
(* in the calls bot.py, strategy.py and order_manager.py make.             *)
(***************************************************************************)
\* position_tracker.py 17: the line str(position) written for a position.
repr_position(position) ==
    <<position.pair, position.order_id, position.side, position.volume, position.price,
      position.exchange, position.timestamp, position.status, position.filled_timestamp>>

\* position_tracker.py 33: eval of a line of the file.
EvalReopening(line) ==
    [pair |-> line[1], order_id |-> line[2], side |-> line[3], volume |-> line[4],
     price |-> line[5], exchange |-> line[6], timestamp |-> line[7], status |-> "open",
     filled_timestamp |-> line[9]]
eval_position(line) ==
    [pair |-> line[1], order_id |-> line[2], side |-> line[3], volume |-> line[4],
     price |-> line[5], exchange |-> line[6], timestamp |-> line[7], status |-> line[8],
     filled_timestamp |-> line[9]]

\* position_tracker.py 11-20: the file is rewritten with one line per position.
save_open_positions(open_positions) ==
    [k \in 1..Len(open_positions) |-> repr_position(open_positions[k])]

\* position_tracker.py 31-37: eval raises on a line that is no dict literal;
\* a blank line is not evaluated at all.
Evaluates(line) == Len(line) = PositionFields

\* position_tracker.py 23-48: the positions younger than 24 hours, a line
\* that does not evaluate being passed over.
LoadStoppingAtBadLine(lines, t) ==
    LET bad == {k \in 1..Len(lines) : ~Evaluates(lines[k])}
        upto == IF bad = {} THEN Len(lines) ELSE (CHOOSE k \in bad : \A m \in bad : k <= m) - 1
        Recent(line) == t - eval_position(line).timestamp < DayAge
        kept == SelectSeq(SubSeq(lines, 1, upto), Recent)
    IN [k \in 1..Len(kept) |-> eval_position(kept[k])]
load_open_positions(lines, t) ==
    LET Recent(line) == Evaluates(line) /\ t - eval_position(line).timestamp < DayAge
        kept == SelectSeq(lines, Recent)
    IN [k \in 1..Len(kept) |-> eval_position(kept[k])]

\* position_tracker.py 99-121: filled positions older than an hour go.
CleanupOfAnyExchange(open_positions, exchange, t) ==
    LET Kept(position) ==
            ~(position.status = "filled" /\ position.filled_timestamp < t - HourAge)
    IN SelectSeq(open_positions, Kept)
cleanup_filled_positions(open_positions, exchange, t) ==
    LET Kept(position) ==
            \/ position.exchange # exchange
            \/ ~(position.status = "filled" /\ position.filled_timestamp < t - HourAge)
    IN SelectSeq(open_positions, Kept)

\* strategy.py 236-239 and order_manager.py 528-532: a placed order becomes an
\* open position under the id the exchange gave it, or under the blank id
\* (0) when the response carries no txid list; the list is saved.
PosAdd(e) ==
    /\ SumOver(Exchanges, [x \in Exchanges |-> Len(all_open_positions[x])]) < MaxPositions
    /\ \E side \in {"buy", "sell"}, blank \in BOOLEAN :
         /\ ~blank => next_order < MaxPositions
         /\ next_order' = IF blank THEN next_order ELSE next_order + 1
         /\ LET order_id == IF blank THEN 0 ELSE next_order + 1
                added == add_open_position(all_open_positions[e], "AUSDT", order_id, side,
                                           100, 10, e, ptime)
            IN /\ all_open_positions' = [all_open_positions EXCEPT ![e] = added]
               /\ positions_file' = [positions_file EXCEPT ![e] = save_open_positions(added)]
    /\ pev' = [op |-> "add"]
    /\ UNCHANGED <<ptime, ever_filled>>
    /\ UNCHANGED notPos

\* order_manager.py 280-282: a filled order of the exchange marks its
\* position; the list is saved when a position was found.
PosFill(e) ==
    /\ \E txid \in 1..next_order :
         LET updated == update_position_status(all_open_positions[e], txid, "filled", e, ptime)
             found == \E k \in 1..Len(all_open_positions[e]) :
                         /\ all_open_positions[e][k].order_id = txid
                         /\ all_open_positions[e][k].exchange = e
         IN /\ all_open_positions' = [all_open_positions EXCEPT ![e] = updated]
            /\ positions_file' = IF found
                                 THEN [positions_file EXCEPT ![e] = save_open_positions(updated)]
                                 ELSE positions_file
            /\ ever_filled' = IF found THEN ever_filled \cup {txid} ELSE ever_filled
            /\ pev' = [op |-> "fill"]
    /\ UNCHANGED <<ptime, next_order>>
    /\ UNCHANGED notPos

\* bot.py 408-414: the periodic cleanup; the list is saved when it shrank.
PosCleanup(e) ==
    /\ LET cleaned == cleanup_filled_positions(all_open_positions[e], e, ptime)
       IN /\ all_open_positions' = [all_open_positions EXCEPT ![e] = cleaned]
          /\ positions_file' = IF Len(cleaned) # Len(all_open_positions[e])
                               THEN [positions_file EXCEPT ![e] = save_open_positions(cleaned)]
                               ELSE positions_file
    /\ pev' = [op |-> "cleanup"]
    /\ UNCHANGED <<ptime, next_order, ever_filled>>
    /\ UNCHANGED notPos

\* bot.py 199-202: the bot starts again and loads the file of every
\* exchange; a file from which old positions were dropped is rewritten.
PosLoad ==
    /\ LET loaded == [e \in Exchanges |-> load_open_positions(positions_file[e], ptime)]
       IN /\ all_open_positions' = loaded
          /\ positions_file' =
                [e \in Exchanges |->
                    IF Len(loaded[e]) < Len(positions_file[e])
                    THEN save_open_positions(loaded[e]) ELSE positions_file[e]]
    /\ pev' = [op |-> "load"]
    /\ UNCHANGED <<ptime, next_order, ever_filled>>
    /\ UNCHANGED notPos

\* Time passes.
PosElapse ==
    /\ ptime < PosHorizon
    /\ \E d \in PosElapses : ptime' = ptime + d
    /\ pev' = [op |-> "elapse"]
    /\ UNCHANGED <<all_open_positions, positions_file, next_order, ever_filled>>
    /\ UNCHANGED notPos

PosInit ==
    /\ all_open_positions = [e \in Exchanges |-> <<>>]
    /\ positions_file = [e \in Exchanges |-> <<>>]
    /\ ptime = ClockStart
    /\ next_order = 0
    /\ ever_filled = {}
    /\ pev = [op |-> "init"]

NextPos ==
    \/ \E e \in Exchanges : PosAdd(e)
    \/ \E e \in Exchanges : PosFill(e)
    \/ \E e \in Exchanges : PosCleanup(e)
    \/ PosLoad
    \/ PosElapse

(***************************************************************************)
(* normalize_pair and get_pair_format of ExchangeKraken (kraken.py         *)
(* 319-326) and ExchangeBitMart (bitmart.py 406-423).                      *)
(***************************************************************************)
USDT == <<"U", "S", "D", "T">>
USD == <<"U", "S", "D">>
BTC == <<"B", "T", "C">>
ETH == <<"E", "T", "H">>
EUR == <<"E", "U", "R">>

\* The pair names the bot meets: a base and a quote currency, joined with
\* or without the underscore, and a quote currency alone.
PairBases == {<<"A">>, <<"X", "R", "P">>, <<"D", "O", "G", "E">>}
PairQuotes == {USDT, USD, BTC, ETH, EUR}
PairFormats ==
    {base \o sep \o quote : base \in PairBases, sep \in {<<>>, <<"_">>}, quote \in PairQuotes}
    \cup PairQuotes

\* str.endswith and the slice pair[:-n].
EndsWith(pair, suffix) ==
    /\ Len(pair) >= Len(suffix)
    /\ SubSeq(pair, Len(pair) - Len(suffix) + 1, Len(pair)) = suffix
DropLast(pair, n) == SubSeq(pair, 1, Len(pair) - n)

HasUnderscore(pair) == \E k \in 1..Len(pair) : pair[k] = "_"

\* kraken.py 319-322: pair.replace('_', '').
kraken_normalize_pair(pair) ==
    LET Kept(c) == c # "_" IN SelectSeq(pair, Kept)

\* bitmart.py 406-419.
BitmartSplitAlways(pair) ==
    IF EndsWith(pair, USDT) THEN DropLast(pair, Len(USDT)) \o <<"_">> \o USDT
    ELSE IF EndsWith(pair, USD) THEN DropLast(pair, Len(USD)) \o <<"_">> \o USD
    ELSE pair
bitmart_normalize_pair(pair) ==
    IF ~HasUnderscore(pair) /\ Len(pair) > Len(USDT)
    THEN IF EndsWith(pair, USDT) THEN DropLast(pair, Len(USDT)) \o <<"_">> \o USDT
         ELSE IF EndsWith(pair, USD) THEN DropLast(pair, Len(USD)) \o <<"_">> \o USD
         ELSE IF EndsWith(pair, BTC) THEN DropLast(pair, Len(BTC)) \o <<"_">> \o BTC
         ELSE IF EndsWith(pair, ETH) THEN DropLast(pair, Len(ETH)) \o <<"_">> \o ETH
         ELSE pair
    ELSE pair

normalize_pair(e, pair) ==
    IF e = "kraken" THEN kraken_normalize_pair(pair) ELSE bitmart_normalize_pair(pair)

\* kraken.py 324-326 and bitmart.py 421-423.
get_pair_format(e, normalized_pair) == normalize_pair(e, normalized_pair)

\* A handle is asked to normalize a pair name.
NormalizePair ==
    /\ pair_in = None
    /\ \E e \in Exchanges, pair \in PairFormats :
         /\ pair_in' = [ex |-> e, pair |-> pair]
         /\ normalized' = normalize_pair(e, pair)
    /\ UNCHANGED formatted
    /\ UNCHANGED notPair

\* The same handle is asked for the exchange's format: of the name, of the
\* format just obtained, and of the normalized name.
FormatPair ==
    /\ pair_in # None /\ formatted = None
    /\ formatted' = [once |-> get_pair_format(pair_in.ex, pair_in.pair),
                     twice |-> get_pair_format(pair_in.ex,
                                               get_pair_format(pair_in.ex, pair_in.pair)),
                     back |-> get_pair_format(pair_in.ex, normalized)]
    /\ UNCHANGED <<pair_in, normalized>>
    /\ UNCHANGED notPair

PairInit ==
    /\ pair_in = None
    /\ normalized = <<>>
    /\ formatted = None

NextPair == NormalizePair \/ FormatPair

(***************************************************************************)
(* trading/order_manager.py check_and_place_sell_orders and the phases of  *)
(* bot.py 268-406 around it.                                               *)
(***************************************************************************)
\* A closed order as get_closed_orders lists it: the price in millionths of a
\* dollar, cost = price * vol_exec, age = time.time() - closetm; shape
\* "nokey" is an order without vol_exec.
ClosedOrder(side, status, vol_exec, age, price, fee, shape) ==
    [side |-> side, status |-> status, vol |-> SettleVolume, vol_exec |-> vol_exec,
     age |-> age, price |-> price, cost |-> price * vol_exec, fee |-> fee, shape |-> shape]

ClosedKinds ==
    {ClosedOrder("buy", "closed", 100, 100, 4, 0, "ok"),
     ClosedOrder("buy", "closed", 100, 100, 10000, 2600, "ok"),
     ClosedOrder("buy", "closed", 95, 1800, 10000, 0, "ok"),
     ClosedOrder("buy", "closed", 94, 100, 10000, 0, "ok"),
     ClosedOrder("buy", "closed", 100, 1801, 10000, 0, "ok"),
     ClosedOrder("sell", "closed", 100, 100, 10000, 0, "ok"),
     ClosedOrder("buy", "canceled", 100, 100, 10000, 0, "ok"),
     ClosedOrder("buy", "closed", 100, 100, 10000, 0, "nokey")}

ClosedLists == UNION {[1..n -> ClosedKinds] : n \in 0..MaxClosed}

\* order_manager.py 336-387: the closed orders that count as filled buys.
IsFilledBuy(o) ==
    /\ ~(o.age > SettleLookback)
    /\ o.side = "buy" /\ o.status = "closed"
    /\ o.shape = "ok"
    /\ o.vol_exec > 0
    /\ ~(100 * o.vol_exec < FillRatioPercent * o.vol)

RECURSIVE CollectFilledBuyOrders(_, _)
CollectFilledBuyOrders(closed, k) ==
    IF k > Len(closed) THEN <<>>
    ELSE LET rest == CollectFilledBuyOrders(closed, k + 1)
         IN IF IsFilledBuy(closed[k])
            THEN <<[txid |-> k, volume |-> closed[k].vol_exec, price |-> closed[k].price,
                    cost |-> closed[k].cost, fee |-> closed[k].fee, order |-> closed[k]]>> \o rest
            ELSE rest

\* order_manager.py 537-560: the open-orders query answers ("ok"), returns
\* nothing or raises; in the last two cases the answer is False.
has_open_sell_orders_for_pair(e, query) == query = "ok" /\ open_sell[e]

\* order_manager.py 444-461 for one balance answer: zero, or less than a
\* tenth of the volume after the 1% buffer, sends the loop to the next poll.
Insufficient(available_balance, volume) ==
    \/ available_balance <= 0
    \/ /\ 99 * available_balance < 100 * volume
       /\ 10 * 99 * available_balance < 100 * volume

\* order_manager.py 418-472: the poll that ends the loop, 0 when none does.
\* An answer of -1 is get_cached_balance returning None.
DecisivePoll(answers, volume) ==
    LET hits == {k \in 1..max_balance_checks :
                    answers[k] = -1 \/ ~Insufficient(answers[k], volume)}
    IN IF hits = {} THEN 0 ELSE CHOOSE k \in hits : \A m \in hits : k <= m

\* order_manager.py 451-469, in hundredths of a token.
ActualSellVolume(available_balance, volume) ==
    IF 99 * available_balance < 100 * volume THEN 99 * available_balance ELSE 100 * volume

\* utils/helpers.py 27-35 for a price in millionths of a dollar, in thousandths.
get_profit_margin(price) ==
    LET category == get_price_range_category((price + 999) \div 1000)
    IN IF category = "low" THEN PROFIT_MARGIN_LOW
       ELSE IF category = "medium" THEN PROFIT_MARGIN_MED
       ELSE PROFIT_MARGIN_HIGH

\* The last decimal place of a price of price_decimals places, in millionths.
Quantum(price_decimals) == IF price_decimals = 5 THEN 10 ELSE 1

\* order_manager.py 501-508: buy_price * (1 + 2 * fee_rate + profit_margin),
\* rounded to price_decimals; fee_rate = fee / cost, 0.0026 without a cost.
MinSellPrice(buy_order, price_decimals) ==
    LET q == Quantum(price_decimals)
        margin == get_profit_margin(buy_order.price)
    IN IF buy_order.cost > 0
       \* cost = price * volume in every closed order, so price / cost = 1 / volume
       THEN RoundDiv(1000 * buy_order.cost + 2000 * buy_order.fee + margin * buy_order.cost,
                     1000 * buy_order.volume * q) * q
       ELSE RoundDiv(buy_order.price * (10000 + 2 * DefaultFee10000 + 10 * margin),
                     10000 * q) * q

\* The per-exchange loops of bot.py 270-292.
SettleAdvance(phase, next) ==
    IF sexi < Len(ExchangeOrder)
    THEN sexi' = sexi + 1 /\ spc' = phase
    ELSE sexi' = 1 /\ spc' = next

\* bot.py 268-281: manage_open_orders of one exchange reports a cancellation
\* or not.
SettleManage(e) ==
    /\ spc = "manage" /\ ExchangeOrder[sexi] = e
    /\ \E orders_canceled \in BOOLEAN :
         /\ orders_canceled_any' = (orders_canceled_any \/ orders_canceled)
         /\ sev' = [op |-> "manage", ex |-> e, orders_canceled |-> orders_canceled]
    /\ SettleAdvance("manage", "settle")
    /\ UNCHANGED <<cooled, open_sell, filled_buys>>
    /\ UNCHANGED notSettle

\* order_manager.py 310-397: the closed orders are fetched and the filled
\* buys collected.
SettleFetch(e) ==
    /\ spc = "settle" /\ ExchangeOrder[sexi] = e
    /\ \E answered \in BOOLEAN, had_sell \in BOOLEAN, closed \in ClosedLists :
         LET found == IF answered THEN CollectFilledBuyOrders(closed, 1) ELSE <<>>
         IN /\ ~answered => closed = <<>> /\ ~had_sell
            /\ open_sell' = [open_sell EXCEPT ![e] = had_sell]
            /\ filled_buys' = found
            /\ sev' = [op |-> "fetch", ex |-> e, answered |-> answered, found |-> Len(found)]
            /\ IF found = <<>> THEN SettleAdvance("settle", "cooldown")
               ELSE sexi' = sexi /\ spc' = "loop"
    /\ UNCHANGED <<orders_canceled_any, cooled>>
    /\ UNCHANGED notSettle

\* What the processing of one filled buy leaves behind: the record of the
\* step, the sell on the exchange, and the rest of the loop; an exception is
\* caught by no clause of the function and ends the call (bot.py 291).
SettleFinish(e, polls, balance_kind, outcome, price_decimals, asked, sell_volume) ==
    LET buy_order == Head(filled_buys)
    IN /\ sev' = [op |-> "settle", ex |-> e, buy_order |-> buy_order,
                  had_sell |-> open_sell[e], polls |-> polls,
                  balance_kind |-> balance_kind, outcome |-> outcome,
                  price_decimals |-> price_decimals,
                  price |-> IF asked THEN MinSellPrice(buy_order, price_decimals) ELSE 0,
                  volume |-> IF asked THEN sell_volume ELSE 0,
                  rest |-> Len(filled_buys) - 1, reached |-> asked /\ ReachesExchange(e),
                  after_cancel |-> orders_canceled_any, cooled |-> cooled]
       /\ open_sell' = [open_sell EXCEPT ![e] = @ \/ outcome = "sold"]
       /\ IF outcome = "raised" \/ Len(filled_buys) = 1
          THEN filled_buys' = <<>> /\ SettleAdvance("settle", "cooldown")
          ELSE filled_buys' = Tail(filled_buys) /\ sexi' = sexi /\ spc' = "loop"

\* order_manager.py 399-534, one filled buy: the duplicate check (403), the
\* balance polls (418-476), the pair information and ordermin (478-499), the
\* price (501-508) and the sell order (518-534).
SettleBuy(e) ==
    /\ spc = "loop" /\ ExchangeOrder[sexi] = e
    /\ \E query \in {"ok", "none", "raise"} :
         IF has_open_sell_orders_for_pair(e, query)
         THEN SettleFinish(e, 0, "unasked", "duplicate", 5, FALSE, 0)
         ELSE \E answers \in [1..max_balance_checks -> BalancePolls] :
                LET volume == Head(filled_buys).volume
                    k == DecisivePoll(answers, volume)
                    polls == IF k = 0 THEN max_balance_checks ELSE k
                IN \* the answers of polls that are not made are fixed
                   /\ \A n \in 1..max_balance_checks : n > polls => answers[n] = 0
                   /\ IF k = 0
                      THEN SettleFinish(e, polls, "short", "no_balance", 5, FALSE, 0)
                      ELSE IF answers[k] = -1
                      \* line 439: balance_response.get on None
                      THEN SettleFinish(e, polls, "none", "raised", 5, FALSE, 0)
                      ELSE \E pair_info \in {"none", "fine", "coarse"} :
                             LET sell_volume == ActualSellVolume(answers[k], volume)
                                 price_decimals == IF pair_info = "none" THEN 5 ELSE 6
                                 ordermin == IF pair_info = "coarse" THEN CoarseOrdermin ELSE 0
                             IN IF sell_volume < 100 * ordermin
                                THEN SettleFinish(e, polls, "ok", "below_ordermin",
                                                  price_decimals, FALSE, 0)
                                ELSE \E placed \in PlaceOutcomes(e) :
                                       SettleFinish(e, polls, "ok",
                                                    IF placed = "raise" THEN "raised"
                                                    ELSE IF placed = "none" THEN "failed"
                                                    ELSE "sold",
                                                    price_decimals, TRUE, sell_volume)
    /\ UNCHANGED <<orders_canceled_any, cooled>>
    /\ UNCHANGED notSettle

\* bot.py 294-297: after a reported cancellation main sleeps half an interval.
SettleCooldown ==
    /\ spc = "cooldown"
    /\ cooled' = TRUE
    /\ sev' = [op |-> "cooldown", slept |-> orders_canceled_any]
    /\ spc' = "place"
    /\ UNCHANGED <<sexi, orders_canceled_any, open_sell, filled_buys>>
    /\ UNCHANGED notSettle

\* bot.py 299-406: the placing loop, as far as placing a buy order goes.
SettlePlace ==
    /\ spc = "place"
    /\ \E bought \in BOOLEAN :
         sev' = [op |-> "place", outcome |-> IF bought THEN "bought" ELSE "passed",
                 after_cancel |-> orders_canceled_any, cooled |-> cooled]
    /\ spc' = "end"
    /\ UNCHANGED <<sexi, orders_canceled_any, cooled, open_sell, filled_buys>>
    /\ UNCHANGED notSettle

SettleInit ==
    /\ spc = "manage" /\ sexi = 1
    /\ orders_canceled_any = FALSE
    /\ cooled = FALSE
    /\ open_sell = [e \in Exchanges |-> FALSE]
    /\ filled_buys = <<>>
    /\ sev = [op |-> "init"]

NextSettle ==
    \/ \E e \in Exchanges : SettleManage(e)
    \/ \E e \in Exchanges : SettleFetch(e)
    \/ \E e \in Exchanges : SettleBuy(e)
    \/ SettleCooldown
    \/ SettlePlace

(***************************************************************************)
(* trading/strategy.py 176-199: the leverage of a buy order.               *)
(***************************************************************************)
\* What kraken_request can hand to get_trade_balance_kraken: None after a
\* network failure ("none"), a response with errors ("error"), or a response
\* whose result is an empty dict ("empty"), has no 'm' ("no_m"), has an 'm'
\* that is no number ("bad_m"), or has the margin level m, in hundredths ("ok").
TradeBalanceResponses ==
    {[kind |-> k, m |-> 0] : k \in {"none", "error", "empty", "no_m", "bad_m"}}
        \cup {[kind |-> "ok", m |-> m] : m \in MarginLevels}

\* exchanges/kraken.py 112-119: None["result"] raises, a response with errors
\* gives None, any other response gives its result.
get_trade_balance_kraken(response) ==
    IF response.kind = "none" THEN "raise"
    ELSE IF response.kind = "error" THEN "None"
    ELSE "result"

\* strategy.py 182-197: the leverage handed to place_buy_order, 0 for None.
LeverageOfOrder(enabled, default_leverage, e, response) ==
    IF ~(enabled /\ e = "kraken") THEN 0
    ELSE LET trade_balance == get_trade_balance_kraken(response)
         IN IF trade_balance = "raise" THEN 0
            \* `if trade_balance:` is false for None and for an empty dict
            ELSE IF trade_balance = "None" \/ response.kind = "empty" THEN default_leverage
            ELSE IF response.kind = "bad_m" THEN 0
            ELSE IF (IF response.kind = "no_m" THEN 0 ELSE response.m) < MarginFloor THEN 0
            ELSE default_leverage

\* exchanges/kraken.py 96: the order carries leverage when it is above 1.
CarriesLeverage(leverage) == leverage > 1

\* strategy.py 176-250: the order is placed; an exception of place_buy_order
\* is caught at line 244 and the strategy returns.
PlaceWithMargin ==
    /\ margin_order = None
    /\ \E enabled \in BOOLEAN, default_leverage \in Leverages, e \in Exchanges,
          response \in TradeBalanceResponses, outcome \in {"ok", "none", "raise"} :
         /\ outcome \in PlaceOutcomes(e)
         \* the request is made on Kraken with margin trading enabled only
         /\ ~(enabled /\ e = "kraken") => response = [kind |-> "none", m |-> 0]
         /\ margin_order' =
                [enabled |-> enabled, default_leverage |-> default_leverage, ex |-> e,
                 queried |-> enabled /\ e = "kraken", response |-> response,
                 leverage |-> LeverageOfOrder(enabled, default_leverage, e, response),
                 outcome |-> outcome, escaped |-> FALSE]
    /\ UNCHANGED notMargin

MarginInit == margin_order = None

NextMargin == PlaceWithMargin

(***************************************************************************)
(* trading/position_tracker.py, its functions on their own.                *)
(***************************************************************************)
\* The positions a list can hold: of either exchange, added a day ago to the
\* second, a second less, or lately; open, or filled an hour and a second
\* ago, an hour ago, or lately.
StorePositions ==
    {[pair |-> "AUSDT", order_id |-> 1, side |-> "buy", volume |-> 100, price |-> 10,
      exchange |-> e, timestamp |-> StoreNow - age, status |-> f.status,
      filled_timestamp |-> f.filled_timestamp] :
        e \in Exchanges, age \in {DayAge, DayAge - 1, 100},
        f \in {[status |-> "open", filled_timestamp |-> 0]}
               \cup {[status |-> "filled", filled_timestamp |-> StoreNow - a] :
                        a \in {HourAge + 1, HourAge, 50}}}

StoreLists == UNION {[1..n -> StorePositions] : n \in 0..MaxStored}

\* The lines a file can hold: the line of a position, a line that is no dict
\* literal, a blank line.
StoreLines == {repr_position(p) : p \in StorePositions} \cup {<<"garbage">>, <<>>}

StoreFiles == UNION {[1..n -> StoreLines] : n \in 0..MaxStored}

\* cleanup_filled_positions(open_positions, exchange), then once more on its
\* result at the same instant; saved tells whether save_open_positions ran
\* (position_tracker.py 117-119).
StoreCleanup ==
    /\ \/ /\ store = None
          /\ \E open_positions \in StoreLists, exchange \in Exchanges :
               LET cleaned == cleanup_filled_positions(open_positions, exchange, StoreNow)
               IN store' = [op |-> "cleanup", runs |-> 1, exchange |-> exchange,
                            first |-> open_positions, open_positions |-> open_positions,
                            result |-> cleaned,
                            saved |-> Len(cleaned) # Len(open_positions)]
       \/ /\ store # None /\ store.op = "cleanup" /\ store.runs = 1
          /\ LET cleaned == cleanup_filled_positions(store.result, store.exchange, StoreNow)
             IN store' = [store EXCEPT !.runs = 2, !.open_positions = store.result,
                                       !.result = cleaned,
                                       !.saved = Len(cleaned) # Len(store.result)]
    /\ UNCHANGED notStore

\* load_open_positions(exchange) on a file.
StoreLoad ==
    /\ store = None
    /\ \E lines \in StoreFiles :
         store' = [op |-> "load", lines |-> lines,
                   result |-> load_open_positions(lines, StoreNow)]
    /\ UNCHANGED notStore

\* save_open_positions(open_positions, exchange), then load_open_positions.
StoreSaveLoad ==
    /\ store = None
    /\ \E open_positions \in StoreLists :
         LET lines == save_open_positions(open_positions)
         IN store' = [op |-> "save_load", open_positions |-> open_positions, lines |-> lines,
                      result |-> load_open_positions(lines, StoreNow)]
    /\ UNCHANGED notStore

StoreInit == store = None

NextStore == StoreCleanup \/ StoreLoad \/ StoreSaveLoad

(***************************************************************************)
(* trading/strategy.py calculate_dynamic_buy_price on its own.             *)
(***************************************************************************)
\* strategy.py 10-54 for a last price and an order book without data, without
\* bids, or with a best bid near the last price.
PriceCall ==
    /\ priced = None
    /\ \E current_price \in 1..MaxLastPrice, book \in {"none", "empty", "bids"},
          off \in BidSpread :
         /\ book # "bids" => off = 0
         /\ current_price + off > 0
         /\ priced' = [current_price |-> current_price, book |-> book,
                       best_bid |-> current_price + off,
                       buy_price |-> calculate_dynamic_buy_price(current_price, book,
                                                                 current_price + off)]
    /\ UNCHANGED notPriced

PricedInit == priced = None

NextPriced == PriceCall

(***************************************************************************)
(* bot.py 252-418: the cycles of the trading loop on one exchange and one  *)
(* pair, with the exchange filling orders in between.                      *)
(***************************************************************************)
RunExchange == "kraken"
RunPair == "AUSDT"

\* The seconds a cycle takes: the sleep of bot.py 418 and its requests.
RunElapses == {901}

\* The ticker's last price of manage_open_orders (order_manager.py 81-107).
RunTicks == {RunPrice, 2 * RunPrice}

\* A timestamp d seconds later; beyond the horizon all ages count the same.
Aged(stamp, d, horizon) == Max(stamp - d, -(horizon + 1))

\* An order as the exchange opens it; stamp is the opentm of an open order and
\* the closetm of a closed or cancelled one; buy is the filled buy a sell was
\* placed for, 0 in a buy order.
RunOrder(side, vol, buy) ==
    [side |-> side, status |-> "open", stamp |-> 0, vol |-> vol, buy |-> buy]

\* get_open_orders as manage_open_orders reads one of its orders.
OpenOf(o) ==
    [side |-> o.side, opentm |-> o.stamp, vol |-> o.vol, price |-> RunPrice, shape |-> "ok"]

OpenTxids == {k \in 1..Len(xorders) : xorders[k].status = "open"}

\* get_closed_orders as check_and_place_sell_orders reads it (order_manager.py
\* 325-387); an order still open is not among the closed orders.
ClosedOf(listed) ==
    [k \in 1..Len(listed) |->
        ClosedOrder(listed[k].side, listed[k].status,
                    IF listed[k].status = "closed" THEN listed[k].vol \div 100 ELSE 0,
                    -listed[k].stamp, RunPrice, 0, "ok")]

\* order_manager.py 233-282: every closed order of the last half hour that is
\* not in the recorded orders has its position marked filled.
RECURSIVE MarkFilled(_, _)
MarkFilled(open_positions, txids) ==
    IF txids = {} THEN open_positions
    ELSE LET txid == CHOOSE k \in txids : TRUE
         IN MarkFilled(update_position_status(open_positions, txid, "filled", RunExchange, 0),
                       txids \ {txid})

\* bot.py 253-263, check_and_record_completed_trades.
RunRecord ==
    /\ run_pc = "record"
    /\ \E answered \in BOOLEAN :
         LET fresh == IF answered
                      THEN {k \in 1..Len(xorders) :
                               /\ k \notin recorded_ids
                               /\ xorders[k].status = "closed"
                               /\ ~(-xorders[k].stamp > Lookback)}
                      ELSE {}
         IN /\ run_positions' = MarkFilled(run_positions, fresh)
            /\ recorded_ids' = recorded_ids \cup fresh
    /\ run_pc' = "manage"
    /\ UNCHANGED <<xorders, base_balance, position_cleanup_counter>>
    /\ UNCHANGED notRun

\* bot.py 268-281, manage_open_orders: the orders it marks are cancelled on
\* the exchange, which frees the volume of a cancelled sell; the positions
\* are not part of the call.
RunManage ==
    /\ run_pc = "manage"
    /\ \E answered \in BOOLEAN, tick \in RunTicks :
         LET orders_to_cancel ==
                 IF answered
                 THEN {k \in OpenTxids :
                          ClassifyOrder(RunExchange, OpenOf(xorders[k]), 0, tick) = "cancel"}
                 ELSE {}
             freed == [k \in orders_to_cancel |->
                          IF xorders[k].side = "sell" THEN xorders[k].vol ELSE 0]
         IN /\ xorders' = [k \in 1..Len(xorders) |->
                              IF k \in orders_to_cancel
                              THEN [xorders[k] EXCEPT !.status = "canceled", !.stamp = 0]
                              ELSE xorders[k]]
            /\ base_balance' = base_balance + SumOver(orders_to_cancel, freed)
    /\ run_pc' = "settle"
    /\ UNCHANGED <<run_positions, recorded_ids, position_cleanup_counter>>
    /\ UNCHANGED notRun

\* bot.py 283-292, check_and_place_sell_orders.  The response lists the closed
\* orders in an order of the exchange's choosing; the filled buys have one
\* volume, so the first one listed is sold for or none is: after a sale every
\* later one meets the open sell (order_manager.py 409-412).  The balance polls
\* answer the free balance, the pair's minimum order lies below the volume.
RunSettle ==
    /\ run_pc = "settle"
    /\ \E answered \in BOOLEAN, accepted \in BOOLEAN :
         LET found == IF answered THEN CollectFilledBuyOrders(ClosedOf(xorders), 1) ELSE <<>>
             had_sell == \E k \in OpenTxids : xorders[k].side = "sell"
         IN IF found = <<>> \/ had_sell \/ ~accepted \/ Len(xorders) >= MaxRunOrders
            THEN UNCHANGED <<xorders, base_balance, run_positions>>
            ELSE \E first \in 1..Len(found) :
                   LET buy_order == found[first]
                       volume == 100 * buy_order.volume
                       sell_volume == ActualSellVolume(base_balance, volume) \div 100
                   IN IF Insufficient(base_balance, volume)
                      THEN UNCHANGED <<xorders, base_balance, run_positions>>
                      ELSE /\ xorders' = Append(xorders, RunOrder("sell", sell_volume, buy_order.txid))
                           /\ base_balance' = base_balance - sell_volume
                           /\ run_positions' =
                                  add_open_position(run_positions, RunPair, Len(xorders) + 1,
                                                    "sell", sell_volume, RunPrice, RunExchange, 0)
    /\ run_pc' = "place"
    /\ UNCHANGED <<recorded_ids, position_cleanup_counter>>
    /\ UNCHANGED notRun

\* bot.py 358-366 and strategy.py 199-239: a buy order of the pair is placed
\* only below MAX_ORDERS_PER_PAIR open positions.
RunPlace ==
    /\ run_pc = "place"
    /\ \E wanted \in BOOLEAN :
         IF /\ wanted
            /\ Cardinality(get_open_positions_for_pair(run_positions, RunPair)) < MAX_ORDERS_PER_PAIR
            /\ Len(xorders) < MaxRunOrders
         THEN /\ xorders' = Append(xorders, RunOrder("buy", 100 * SettleVolume, 0))
              /\ run_positions' =
                     add_open_position(run_positions, RunPair, Len(xorders) + 1, "buy",
                                       100 * SettleVolume, RunPrice, RunExchange, 0)
         ELSE UNCHANGED <<xorders, run_positions>>
    /\ run_pc' = "sleep"
    /\ UNCHANGED <<base_balance, recorded_ids, position_cleanup_counter>>
    /\ UNCHANGED notRun

\* bot.py 408-418: every tenth cycle cleanup_filled_positions, then the sleep.
RunSleep ==
    /\ run_pc = "sleep"
    /\ \E d \in RunElapses :
         LET due == position_cleanup_counter + 1 >= CleanupEvery
             cleaned == IF due THEN cleanup_filled_positions(run_positions, RunExchange, 0)
                        ELSE run_positions
         IN /\ position_cleanup_counter' = IF due THEN 0 ELSE position_cleanup_counter + 1
            /\ run_positions' =
                   [i \in 1..Len(cleaned) |->
                       [cleaned[i] EXCEPT
                           !.timestamp = Aged(@, d, 0),
                           !.filled_timestamp = IF cleaned[i].status = "filled"
                                                THEN Aged(@, d, HourAge) ELSE @]]
            /\ xorders' =
                   [k \in 1..Len(xorders) |->
                       [xorders[k] EXCEPT !.stamp = Aged(@, d, Lookback)]]
    /\ run_pc' = "record"
    /\ UNCHANGED <<base_balance, recorded_ids>>
    /\ UNCHANGED notRun

\* The exchange fills an open order: a filled buy credits its volume (the
\* volume of a sell left the free balance when the sell was placed).
RunFill(k) ==
    /\ k \in OpenTxids
    /\ xorders' = [xorders EXCEPT ![k].status = "closed", ![k].stamp = 0]
    /\ base_balance' = base_balance + (IF xorders[k].side = "buy" THEN xorders[k].vol ELSE 0)
    /\ UNCHANGED <<run_pc, run_positions, recorded_ids, position_cleanup_counter>>
    /\ UNCHANGED notRun

\* The account may hold the base currency before the bot's first order: the
\* volume of an order of an earlier session.
RunHold ==
    /\ xorders = <<>> /\ base_balance = 0
    /\ base_balance' = 100 * SettleVolume
    /\ UNCHANGED <<run_pc, xorders, run_positions, recorded_ids, position_cleanup_counter>>
    /\ UNCHANGED notRun

RunInit ==
    /\ run_pc = "record"
    /\ xorders = <<>>
    /\ base_balance = 0
    /\ run_positions = <<>>
    /\ recorded_ids = {}
    /\ position_cleanup_counter = 0

RunCycle == RunRecord \/ RunManage \/ RunSettle \/ RunPlace \/ RunSleep

NextRun == RunCycle \/ RunHold \/ \E k \in 1..MaxRunOrders : RunFill(k)

(***************************************************************************)
(* trading/order_manager.py 414-476: the balance polls of one filled buy.  *)
(***************************************************************************)
\* The seconds between an earlier call of get_cached_balance and the loop.
PollElapses == {10, 50, 60}

\* What the exchange credits while the buy settles, in tokens.
PollCredits == {5, 11, 100}

\* order_manager.py 421: the wait before poll attempt (counted from 0).
poll_wait(attempt) == Pow2(attempt - 1) * 3

\* An earlier call of get_cached_balance (bot.py 218 at the start, or a poll of
\* an earlier settlement) has fetched the balance and left it in the cache.
PollEarlier ==
    /\ ppc = "idle" /\ poll_cache.data = None
    /\ \E dt \in PollElapses :
         /\ poll_cache' = [data |-> ResponseData("balance", exchange_balance),
                           timestamp |-> poll_clock]
         /\ poll_clock' = poll_clock + dt
    /\ UNCHANGED <<ppc, exchange_balance, poll_log>>
    /\ UNCHANGED notPoll

\* The exchange credits the account.
PollCredit ==
    /\ ppc # "done"
    /\ \E amount \in PollCredits :
         /\ amount > exchange_balance
         /\ exchange_balance' = amount
    /\ UNCHANGED <<ppc, poll_cache, poll_clock, poll_log>>
    /\ UNCHANGED notPoll

\* order_manager.py 418-472, one pass of the loop: the wait, the call
\* get_cached_balance(exchange, exchange_name) (bot.py 71-133: the cached data
\* while the entry is fresh, else a request whose answer is cached, or None
\* when the requests fail), and the test of the balance.
PollAttempt ==
    /\ ppc # "done"
    /\ \E response \in {"balance", "none"} :
         LET attempt == Len(poll_log)
             current_time == poll_clock + (IF attempt > 0 THEN poll_wait(attempt) ELSE 0)
             fresh == CacheFresh(FALSE, poll_cache, current_time)
             polled_response ==
                 IF fresh THEN poll_cache.data
                 ELSE IF response = "balance"
                      THEN ResponseData("balance", exchange_balance)
                      ELSE None
             available_balance ==
                 IF polled_response = None THEN -1 ELSE polled_response.balances
         IN /\ fresh => response = "balance"
            /\ poll_cache' = IF fresh \/ polled_response = None THEN poll_cache
                             ELSE [data |-> polled_response, timestamp |-> current_time]
            /\ poll_clock' = current_time
            /\ poll_log' = Append(poll_log,
                                  [attempt |-> attempt, cached |-> fresh,
                                   available_balance |-> available_balance,
                                   held |-> exchange_balance])
            /\ ppc' = IF \/ polled_response = None
                         \/ ~Insufficient(available_balance, SettleVolume)
                         \/ attempt = max_balance_checks - 1
                      THEN "done" ELSE "loop"
    /\ UNCHANGED exchange_balance
    /\ UNCHANGED notPoll

PollInit ==
    /\ ppc = "idle"
    /\ poll_cache = [data |-> None, timestamp |-> 0]
    /\ poll_clock = ClockStart
    /\ exchange_balance = 0
    /\ poll_log = <<>>

NextPoll == PollEarlier \/ PollCredit \/ PollAttempt

(***************************************************************************)
(* The specifications.                                                     *)
(***************************************************************************)
\* The parts a specification does not run stay as they start.
IdleInit == BalanceInit /\ ProfitInit /\ SelectInit /\ MainInit /\ DiscInit /\ PosInit /\ PairInit /\ SettleInit /\ MarginInit /\ StoreInit /\ PricedInit /\ RunInit /\ PollInit

Init == CycleInit /\ IdleInit

\* The trading cycle of bot.py main.
Spec == Init /\ [][Next]_vars

\* get_cached_balance under any sequence of calls and answers.
SpecBalance == Init /\ [][NextBalance]_vars

\* record_trade under any sequence of buy and sell fills.
SpecProfit == Init /\ [][NextProfit]_vars

\* One manage phase (bot.py 268-281) over any open orders the account can
\* hold at that moment: either side, any age, on either exchange.
ManageOrders ==
    {[ex |-> e, side |-> side, pair |-> pair, price |-> price, vol |-> vol,
      opentm |-> 10000 - age, st |-> "open", closetm |-> 0, shape |-> "ok"] :
        e \in Exchanges, side \in {"buy", "sell"}, pair \in ManagePairs, price \in ManagePrices,
        vol \in ExternalVolumes, age \in ManageAges}

InitManage ==
    /\ pc = "manage" /\ exi = 1
    /\ now = 10000 /\ cyc = 0
    /\ orders \in [OrderIds -> ManageOrders \cup {None}]
    /\ ledger = [e \in Exchanges |-> 0]
    /\ balance \in [Exchanges -> Balances]
    /\ recorded = [i \in OrderIds |-> "none"]
    /\ trades = <<>>
    /\ metrics = [total_trades |-> 0, orders_placed |-> 0]
    /\ trained = <<>>
    /\ positions = [e \in Exchanges |-> <<>>]
    /\ canceledAny = FALSE
    /\ todo = None
    /\ ev = [op |-> "init"]
    /\ IdleInit

NextManage == \E e \in Exchanges : manage_open_orders(e)

SpecManage == InitManage /\ [][NextManage]_vars

\* One call of get_sub_cent_tokens under every interleaving of its workers.
SpecDisc == Init /\ [][NextDisc]_vars

\* The position store under any sequence of the operations the bot performs.
SpecPos == Init /\ [][NextPos]_vars

\* normalize_pair and get_pair_format on every pair name of PairFormats.
SpecPair == Init /\ [][NextPair]_vars

\* The manage result, the settlement, the cooldown and the placing of one cycle.
SpecSettle == Init /\ [][NextSettle]_vars

\* One buy order of the strategy with its margin check, under any configuration.
SpecMargin == Init /\ [][NextMargin]_vars

\* Calls of get_cached_balance whose requests can time out.
SpecFetch == Init /\ [][NextFetch]_vars

\* The functions of the position store on any list and any file.
SpecStore == Init /\ [][NextStore]_vars

\* calculate_dynamic_buy_price on any last price and order book.
SpecPriced == Init /\ [][NextPriced]_vars

\* The trading cycles of one exchange and one pair; every cycle of the loop is
\* gone through to its end (the steps of main are weakly fair).
SpecRun == Init /\ [][NextRun]_vars
SpecRunLive == Init /\ [][NextRun]_vars /\ WF_vars(RunCycle)

\* The balance polls of one filled buy.
SpecPoll == Init /\ [][NextPoll]_vars

\* One run of main from its first line to its exit.
SpecMain == Init /\ [][NextMain]_vars

\* select_best_exchange under any answers of the exchanges.
SpecSelect == Init /\ [][NextSelect]_vars

\* One placing phase (bot.py 299-406) entered with any ledger the manage phase
\* can have left: nothing open, or open orders up to and beyond the limit.
InitStrategy ==
    /\ pc = "place" /\ exi = 1
    /\ now = 10000 /\ cyc = 0
    /\ orders = [i \in OrderIds |-> None]
    /\ ledger \in [Exchanges -> StrategyLedgers]
    /\ balance \in [Exchanges -> Balances]
    /\ recorded = [i \in OrderIds |-> "none"]
    /\ trades = <<>>
    /\ metrics = [total_trades |-> 0, orders_placed |-> 0]
    /\ trained = <<>>
    /\ positions = [e \in Exchanges |-> <<>>]
    /\ canceledAny = FALSE
    /\ todo = None
    /\ ev = [op |-> "init"]
    /\ IdleInit

NextStrategy == Discover \/ ProcessPair

SpecStrategy == InitStrategy /\ [][NextStrategy]_vars

(***************************************************************************)
(* Properties of the trading cycle.                                        *)
(***************************************************************************)
\* The value of the orders open on exchange e, as the exchange holds them.
LiveOpenValue(e) ==
    LET open == OnExchange(e, "open")
    IN SumOver(open, [i \in open |-> Value(orders[i])])

\* C1: simple_trading_strategy calls place_buy_order only when the ledger entry
\* plus buy_price * volume is at most balance * MAX_ACCOUNT_USAGE_PERCENT *
\* risk_multiplier(price), and right after an accepted buy the exchange's ledger
\* entry is at most that cap.
C1_BuyWithinCap ==
    ev.op = "buy" =>
        LET cap1000 == balance[ev.ex] * MAX_ACCOUNT_USAGE_PERCENT * get_risk_multiplier(ev.price)
        IN /\ 1000 * (ev.total + ev.order_value) <= cap1000
           /\ ev.accepted => /\ ledger[ev.ex] = ev.total + ev.order_value
                             /\ 1000 * ledger[ev.ex] <= cap1000

\* C1 witness: a buy was accepted on top of a ledger entry that was not empty.
C1_Witness == ev.op = "buy" /\ ev.accepted /\ ev.total > 0 /\ ev.order_value > 0

\* C2: after manage_open_orders completes for an exchange whose open orders all
\* carry valid fields, the ledger entry equals the sum of price * volume over the
\* orders still open on that exchange, whatever the cancel requests answered, and
\* is not negative.
C2_LedgerEqualsOpenValue ==
    (ev.op = "manage" /\ ev.answered /\ ev.skipped = {}) =>
        /\ ledger[ev.ex] = LiveOpenValue(ev.ex)
        /\ ledger[ev.ex] >= 0

\* C3: every cycle's manage pass leaves the exchange's ledger entry recomputed
\* from that cycle's live open orders, whatever get_open_orders returned: the
\* entry never exceeds the value of the orders open at the end of the pass, as a
\* value carried over from an earlier cycle can.
C3_LedgerNeverStale ==
    ev.op = "manage" => ledger[ev.ex] <= LiveOpenValue(ev.ex)

\* C4: once the order of a buy position created by simple_trading_strategy is
\* listed as closed by get_closed_orders within the 30-minute lookback, the pass
\* of check_and_record_completed_trades that saw it has recorded the fill as a
\* trade and set the position's status to filled.
C4_FilledBuyRecorded ==
    (ev.op = "record" /\ ev.answered /\ ~ev.aborted) =>
        \A k \in 1..Len(positions[ev.ex]) :
            LET p == positions[ev.ex][k]
                o == orders[p.order_id]
            IN (/\ p.side = "buy"
                /\ recorded[p.order_id] # "none"
                /\ p.order_id \in ev.seen
                /\ o.st = "closed"
                /\ now - o.closetm <= Lookback)
               => /\ p.status = "filled"
                  /\ \E n \in 1..Len(trades) : trades[n].order_id = p.order_id

\* C5: each closed order id is appended to the trade ledger, counted in the
\* session metrics and passed to training at most once, also across a cycle in
\* which check_and_record_completed_trades aborts on a malformed closed order.
C5_RecordedAtMostOnce ==
    /\ \A m, n \in 1..Len(trades) : trades[m].order_id = trades[n].order_id => m = n
    /\ \A m, n \in 1..Len(trained) : trained[m] = trained[n] => m = n
    /\ metrics.total_trades <= Cardinality({i \in OrderIds : orders[i] # None /\ orders[i].st = "closed"})

(***************************************************************************)
(* Properties of the profit matcher.                                       *)
(***************************************************************************)
\* matched_volume and fully_matched of the buy record of txid in TRADES_FILE,
\* read the way the file's readers read them: absent means 0 and not matched.
BuyRecord(txid) ==
    file[CHOOSE n \in 1..Len(file) : file[n].order_id = txid /\ file[n].type = "buy"]
MatchedVolume(txid) ==
    IF "matched_volume" \in DOMAIN BuyRecord(txid) THEN BuyRecord(txid).matched_volume ELSE 0
FullyMatched(txid) ==
    IF "fully_matched" \in DOMAIN BuyRecord(txid) THEN BuyRecord(txid).fully_matched ELSE FALSE

\* C6: across any sequence of sell fills of a pair, the volume matched in total
\* against one buy never exceeds that buy's volume.
C6_MatchedWithinBuyVolume ==
    \A b \in fills : consumed[b.txid] <= b.volume

\* First in, first out over the buys as they filled: the cost and fees of
\* matching the sell against the oldest buys first.
FifoMatch(sell_trade, buys) ==
    MatchVolumes(SortByTime(buys), 1,
                 [remaining |-> sell_trade.volume, total_cost |-> 0,
                  total_buy_fees |-> 0, taken |-> <<>>])

\* The buys and the sell of the worked example: 100 at 0.010 filled at 1000,
\* 50 at 0.012 filled at 2000, then a sell of 120 at 0.013, no fees.
ExampleBuys(first, second) ==
    /\ first.volume = 100 /\ first.price = 10 /\ first.fee = 0 /\ first.closetm = 1000
    /\ second.volume = 50 /\ second.price = 12 /\ second.fee = 0 /\ second.closetm = 2000
ExampleSell(sell_trade) ==
    sell_trade.volume = 120 /\ sell_trade.price = 13 /\ sell_trade.fees = 0

\* C7: for a sell that the buys cover, record_trade's profit is the revenue
\* less the sell fee less the cost and fee shares of the buys consumed first in,
\* first out; on the worked example the cost is 1.24, the revenue 1.56, the
\* profit 0.32, the first buy ends fully matched and the second with
\* matched_volume 20 and not fully matched.
C7_ProfitOfMatchedBuys ==
    (last.op = "sell" /\ last.first /\ last.result # None) =>
        /\ last.result.remaining = 0 =>
              LET m == FifoMatch(last.trade, last.buys)
              IN last.result.profit = last.trade.volume * last.trade.price - last.trade.fees
                                      - (m.total_cost + m.total_buy_fees)
        /\ \A first, second \in last.buys :
              (ExampleBuys(first, second) /\ ExampleSell(last.trade)
               /\ last.buys = {first, second}) =>
                  /\ last.result.cost = 1240
                  /\ last.trade.volume * last.trade.price = 1560
                  /\ last.result.profit = 320
                  /\ MatchedVolume(first.txid) = 100 /\ FullyMatched(first.txid)
                  /\ MatchedVolume(second.txid) = 20 /\ ~FullyMatched(second.txid)

\* C8: when a sell's volume exceeds the buy volume there is to match, the
\* profit is the revenue and the sell fee of the matched volume only, less the
\* cost of the buys matched.
C8_ProfitOverMatchedPortion ==
    (last.op = "sell" /\ last.result # None /\ last.result.remaining > 0) =>
        LET matched == last.trade.volume - last.result.remaining
        IN last.result.profit = matched * last.trade.price
                                - (last.trade.fees * matched) \div last.trade.volume
                                - last.result.cost

(***************************************************************************)
(* Properties of get_cached_balance.                                       *)
(***************************************************************************)
Age == call.current_time - call.found.timestamp
Young == call.found.data # None /\ Age < BALANCE_CACHE_DURATION

\* C9: a call without force_refresh that finds an entry younger than
\* BALANCE_CACHE_DURATION returns the entry's data and sends no request; a call
\* with force_refresh, or one that finds the entry at or beyond that age, sends
\* a request, and when it succeeds the entry holds the new data and the call's
\* time.
C9_CachedOrFresh ==
    call # None =>
        /\ (~call.force_refresh /\ Young) =>
              /\ Returned
              /\ call.requests = 0
              /\ call.result = call.found.data
              /\ balance_cache[call.ex] = call.found
        /\ (Returned /\ (call.force_refresh \/ Age >= BALANCE_CACHE_DURATION)) =>
              /\ call.requests >= 1
              /\ call.result # None =>
                    balance_cache[call.ex] = [data |-> call.result,
                                              timestamp |-> call.current_time]

\* C9 witness: an entry 30 seconds old was returned without a request.
C9_Witness ==
    /\ Returned /\ ~call.force_refresh /\ call.found.data # None /\ Age = 30
    /\ call.requests = 0 /\ call.result = call.found.data

\* C10: a call sends at most 3 requests and is through once the third is
\* answered; after a failure taken for a rate limit on attempt k it sleeps
\* 5 * 2^k seconds; a call whose three requests all failed returns None, and a
\* call that returns None leaves the cache entry as it found it.
C10_BoundedRetries ==
    call # None =>
        /\ call.requests <= 3
        /\ Fetching => call.requests = call.attempt /\ call.attempt < 3
        /\ \A k \in 1..Len(call.sleeps) :
              call.sleeps[k].rate_limited =>
                 call.sleeps[k].secs = 5 * Pow2(call.sleeps[k].attempt)
        /\ call.failures = 3 => Returned /\ call.result = None
        /\ (Returned /\ call.result = None) => balance_cache[call.ex] = call.found

\* C10 witness: three rate-limited requests, slept 5, 10 and 20 seconds, None
\* returned, and an entry that was there before is still there.
C10_Witness ==
    /\ Returned /\ call.requests = 3 /\ call.failures = 3 /\ call.result = None
    /\ Len(call.sleeps) = 3
    /\ \A k \in 1..3 : call.sleeps[k].rate_limited /\ call.sleeps[k].secs = 5 * Pow2(k - 1)
    /\ call.found.data # None /\ balance_cache[call.ex] = call.found

(***************************************************************************)
(* Properties of the classification of manage_open_orders.                 *)
(***************************************************************************)
\* The orders the pass of ev.ex found open, and among them those with a valid
\* price and volume.
OpenAtPass == OnExchange(ev.ex, "open") \cup ev.canceled
ValidAtPass == OpenAtPass \ ev.skipped
AgeAtPass(i) == now - orders[i].opentm

\* C11: in a pass of manage_open_orders an open order with valid price and
\* volume that is at most 600 s old is not marked for cancellation, and one
\* more than 1800 s old is marked, whatever its side and the market price.
C11_AgeBands ==
    (ev.op = "manage" /\ ev.answered) =>
        \A i \in ValidAtPass :
            /\ AgeAtPass(i) <= 600 => i \notin ev.marked
            /\ AgeAtPass(i) > 1800 => i \in ev.marked

\* C11 witness: one pass marked a sell 1801 s old and left alone a buy
\* 600 s old.
C11_Witness ==
    /\ ev.op = "manage" /\ ev.answered
    /\ \E i, j \in ValidAtPass :
          /\ orders[i].side = "sell" /\ AgeAtPass(i) = 1801 /\ i \in ev.marked
          /\ orders[j].side = "buy" /\ AgeAtPass(j) = 600 /\ j \notin ev.marked

\* C20: a valid buy order more than 600 s and at most 1800 s old, with a
\* market price m at hand, is marked for cancellation exactly when its price
\* is at least 5% above m or m is at least 2% above its price; a sell order of
\* that age is never marked.
C20_ReviewThresholds ==
    (ev.op = "manage" /\ ev.answered) =>
        \A i \in ValidAtPass :
            LET m == IF orders[i].pair \in DOMAIN ev.ticker THEN ev.ticker[orders[i].pair] ELSE 0
                price == orders[i].price
            IN (AgeAtPass(i) > 600 /\ AgeAtPass(i) <= 1800 /\ m # 0) =>
                  IF orders[i].side = "buy"
                  THEN i \in ev.marked <=> (100 * price >= 105 * m \/ 100 * m >= 102 * price)
                  ELSE i \notin ev.marked

(***************************************************************************)
(* Properties of simple_trading_strategy.                                  *)
(***************************************************************************)
\* balance * usage fraction * risk multiplier less the ledger entry, in
\* thousandths, for the exchange and price of the strategy call ev tells of.
BudgetLeft1000(total_open_order_value, current_price, e) ==
    balance[e] * MAX_ACCOUNT_USAGE_PERCENT * get_risk_multiplier(current_price)
        - 1000 * total_open_order_value

\* C12: a call of simple_trading_strategy that finds the remaining budget at
\* or below 0 refuses: place_buy_order is not called, and the ledger, the
\* positions, the recorded-order file and the session metrics stay as they
\* were (no order reaches the exchange either).
C12_NoBudgetNoTrade ==
    [][(ev'.op \in {"buy", "refuse"}
        /\ BudgetLeft1000(ledger[ev'.ex], ev'.price, ev'.ex) <= 0)
       => /\ ev'.op = "refuse"
          /\ UNCHANGED <<ledger, positions, recorded, metrics, orders>>]_vars

\* C12 witness: balance 100, usage 10%, risk multiplier 1.0 and a ledger entry
\* of 10 leave a budget of 0, and the call was refused.
C12_Witness ==
    /\ ev.op = "refuse" /\ balance[ev.ex] = 100000 /\ ev.total = 10000
    /\ get_risk_multiplier(ev.price) = RISK_MULTIPLIER_LOW
    /\ BudgetLeft1000(ev.total, ev.price, ev.ex) = 0

(***************************************************************************)
(* Properties of select_best_exchange.                                     *)
(***************************************************************************)
Asked == {quotes.exchanges[k] : k \in 1..Len(quotes.exchanges)}
Score(e) == IF quotes.q[e].book = "ok" THEN quotes.q[e].depth ELSE 0

\* The exchanges with a positive price whose calls all succeeded, and those
\* with a positive price whose order-book call did not raise.
FullyAnswered ==
    {e \in Asked : quotes.q[e].ticker = "ok" /\ quotes.q[e].price > 0 /\ quotes.q[e].book = "ok"}
Priced ==
    {e \in Asked : quotes.q[e].ticker = "ok" /\ quotes.q[e].price > 0 /\ quotes.q[e].book # "raise"}

\* C13 as stated: the call returns an exchange of highest score among those
\* that report a positive price, an exchange whose ticker or order-book call
\* failed or raised being passed over, and returns None exactly when none is
\* left.
C13_BestOfAnswered ==
    quotes # None =>
        /\ choice = None <=> FullyAnswered = {}
        /\ choice # None => /\ choice.name \in FullyAnswered
                            /\ \A e \in FullyAnswered : Score(e) <= Score(choice.name)

\* C13 as amended: an exchange is passed over when its ticker call returns
\* nothing or raises, when its price is not positive or when its order-book call
\* raises; an exchange whose order-book call returns nothing stays in with
\* score 0.  The call returns an exchange of highest score among those left,
\* and None exactly when none is left.
C13_BestOfPriced ==
    quotes # None =>
        /\ choice = None <=> Priced = {}
        /\ choice # None => /\ choice.name \in Priced
                            /\ \A e \in Priced : Score(e) <= Score(choice.name)

\* C13 witness: both exchanges report a price, the second has the deeper book
\* and is returned.
C13_Witness ==
    /\ quotes # None /\ quotes.exchanges = ExchangeOrder
    /\ Priced = Exchanges
    /\ Score("bitmart") > Score("kraken") /\ Score("kraken") > 0
    /\ choice = [name |-> "bitmart"]

(***************************************************************************)
(* Properties of check_and_record_completed_trades under errors.           *)
(***************************************************************************)
\* The order ids a step appended to the trade file.
Appended == {trades'[n].order_id : n \in (Len(trades) + 1)..Len(trades')}

\* C14: a pass of check_and_record_completed_trades, also one that an error
\* ends part-way, leaves the stores consistent: an order id has a trade record
\* exactly if its dedup mark is persisted, and every buy fill the pass recorded
\* has its value taken off the ledger and its position marked filled.
C14_StoresConsistent ==
    [][ev'.op = "record" =>
          /\ \A i \in OrderIds :
                (\E n \in 1..Len(trades') : trades'[n].order_id = i) <=> recorded'[i] = "closed"
          /\ LET buys == {i \in Appended : orders[i].side = "buy"}
             IN /\ ledger'[ev'.ex] =
                      Max(0, ledger[ev'.ex] - SumOver(buys, [i \in buys |-> Value(orders[i])]))
                /\ \A i \in buys : \A k \in 1..Len(positions'[ev'.ex]) :
                      positions'[ev'.ex][k].order_id = i =>
                         positions'[ev'.ex][k].status = "filled"]_vars

(***************************************************************************)
(* C15: when no exchange is initialised, or no exchange has a positive     *)
(* USDT balance, main terminates and a session summary is written whose    *)
(* shutdown reason names the cause, not 'normal' (the summary directory    *)
(* being writable).                                                        *)
(***************************************************************************)
C15_ShutdownReasonWritten ==
    /\ mpc = "exited" /\ interrupted = "no"
    /\ main_exchanges = {} \/ exchange_usdt_balances = {}
    /\ summary_file # Unwritten
    => /\ summary_file # None
       /\ summary_file.shutdown_reason # "normal"

(***************************************************************************)
(* C16: in every interleaving of the discovery workers a worker writes     *)
(* only to the result map and only while holding the lock (so at most one  *)
(* worker is inside the lock), the ledger, the balance cache and the       *)
(* position store do not change, every worker has finished when the map is *)
(* returned, and the map holds exactly the pairs whose ticker reported a   *)
(* last price <= MAX_TOKEN_PRICE.                                          *)
(***************************************************************************)
InsideLock == {p \in DiscPairs : wpc[p] \in {"locked", "release"}}

C16_WorkersConfined ==
    [][/\ sub_cent_tokens' # sub_cent_tokens =>
            \E p \in DiscPairs : /\ lock = p /\ lock' = p
                                 /\ InsideLock = {p}
                                 /\ sub_cent_tokens' = sub_cent_tokens \cup {p}
       /\ dpc = "running" => UNCHANGED <<ledger, balance_cache, positions>>
       /\ dpc' = "returned" =>
            /\ \A p \in usdt_pairs' : wpc'[p] = "done"
            /\ returned_tokens' = {p \in usdt_pairs' : Qualifies(ticker_info'[p])}]_vars

C16_Witness ==
    /\ dpc = "returned"
    /\ Cardinality(usdt_pairs) = 3
    /\ Cardinality(returned_tokens) = 2
    /\ \E p \in usdt_pairs : ticker_info[p].ans = "ok" /\ p \notin returned_tokens

(***************************************************************************)
(* C17: the nonces of successive Kraken requests are strictly increasing,  *)
(* so no two requests carry the same nonce.                                *)
(***************************************************************************)
C17_NoncesIncrease ==
    \A i, j \in 1..Len(nonces) : i < j => nonces[i] < nonces[j]

(***************************************************************************)
(* C18: under any sequence of add, update, cleanup, save and load          *)
(* operations of the bot, a position that was filled never has status      *)
(* open afterwards, in memory or in the file.                              *)
(***************************************************************************)
C18_FilledNeverReopens ==
    \A e \in Exchanges :
       /\ \A k \in 1..Len(all_open_positions[e]) :
             all_open_positions[e][k].order_id \in ever_filled
                => all_open_positions[e][k].status = "filled"
       /\ \A k \in 1..Len(positions_file[e]) :
             eval_position(positions_file[e][k]).order_id \in ever_filled
                => eval_position(positions_file[e][k]).status = "filled"

C18_Witness ==
    /\ pev.op = "load"
    /\ \E e \in Exchanges : \E k \in 1..Len(all_open_positions[e]) :
          /\ all_open_positions[e][k].status = "filled"
          /\ all_open_positions[e][k].filled_timestamp < ptime

(***************************************************************************)
(* C19 as claimed: on both exchanges, for every supported pair format p,   *)
(* with or without the underscore, get_pair_format(normalize_pair(p)) = p, *)
(* and get_pair_format applied twice equals get_pair_format applied once.  *)
(***************************************************************************)
C19_RoundTrip ==
    formatted # None =>
        /\ formatted.back = pair_in.pair
        /\ formatted.twice = formatted.once

\* The exchange's own format: no underscore on Kraken, an underscore on BitMart.
OwnFormat(e, pair) == IF e = "kraken" THEN ~HasUnderscore(pair) ELSE HasUnderscore(pair)

(***************************************************************************)
(* C19 amended: on both exchanges, for every supported pair format p,      *)
(* get_pair_format(normalize_pair(p)) = normalize_pair(p), which is p      *)
(* whenever p is already in the exchange's own format, and get_pair_format *)
(* applied twice equals get_pair_format applied once.                      *)
(***************************************************************************)
C19_Idempotent ==
    formatted # None =>
        /\ formatted.back = normalized
        /\ OwnFormat(pair_in.ex, pair_in.pair) => formatted.back = pair_in.pair
        /\ formatted.twice = formatted.once

C19_Witness ==
    /\ formatted # None
    /\ pair_in.ex = "bitmart"
    /\ ~HasUnderscore(pair_in.pair)
    /\ formatted.once # pair_in.pair
    /\ HasUnderscore(formatted.back)

(***************************************************************************)
(* C21: manage_open_orders returns true exactly when at least one cancel   *)
(* request of the pass succeeded, and false otherwise, also when no order  *)
(* was marked and when the open orders could not be fetched.               *)
(***************************************************************************)
C21_ReturnsWhetherCanceled ==
    ev.op = "manage" => (ev.returned <=> ev.canceled # {})

(***************************************************************************)
(* C23: on Kraken and on BitMart, an open order the client returns with a  *)
(* positive price and volume is seen by manage_open_orders with that price *)
(* and volume: it is counted into the ledger of the exchange and, when     *)
(* more than 1800 s old, marked for cancellation.                          *)
(***************************************************************************)
C23_OrdersSeenAsReturned ==
    (ev.op = "manage" /\ ev.answered) =>
        \A i \in OpenAtPass :
            (orders[i].shape = "ok" /\ orders[i].price > 0 /\ orders[i].vol > 0) =>
                /\ i \notin ev.skipped
                /\ AgeAtPass(i) > ExpireAge => i \in ev.marked

(***************************************************************************)
(* C22: in a cycle in which manage_open_orders reported a cancellation, no *)
(* order, buy or sell, is placed before the half-interval cooldown is over. *)
(***************************************************************************)
C22_NoOrderBeforeCooldown ==
    (sev.op \in {"settle", "place"} /\ sev.outcome \in {"sold", "bought"} /\ sev.after_cancel)
        => sev.cooled

(***************************************************************************)
(* C24: when the balance cannot be obtained, or stays insufficient, for a  *)
(* filled buy, the buy is skipped after at most 3 polls, the remaining     *)
(* filled buys of the pass are still processed and no exception escapes.   *)
(***************************************************************************)
C24_BalanceFailureSkipsBuy ==
    (sev.op = "settle" /\ sev.balance_kind \in {"none", "short"}) =>
        /\ sev.outcome = "no_balance"
        /\ sev.polls <= max_balance_checks
        /\ Len(filled_buys) = sev.rest

(***************************************************************************)
(* C25: a sell is placed only for a buy that is closed, at least 95%       *)
(* filled and closed within the last 30 minutes, and never while an open   *)
(* sell order for the pair exists on the exchange, whatever the            *)
(* open-orders query answered.                                             *)
(***************************************************************************)
C25_SellOnlyForFilledBuyWithoutSell ==
    (sev.op = "settle" /\ sev.outcome = "sold") =>
        /\ sev.buy_order.order.side = "buy" /\ sev.buy_order.order.status = "closed"
        /\ 100 * sev.buy_order.order.vol_exec >= 95 * sev.buy_order.order.vol
        /\ sev.buy_order.order.age <= 1800
        /\ ~sev.had_sell

(***************************************************************************)
(* C26: every sell placed by settlement has the price                      *)
(* buy_price * (1 + 2 * fee_rate + tier margin) rounded to the price       *)
(* precision, its value is not below 95% of the buy value, its implied     *)
(* profit is not above 200% of the buy value, and its price is not 0.      *)
(***************************************************************************)
C26_SellPriceSane ==
    (sev.op = "settle" /\ sev.outcome = "sold") =>
        /\ sev.price = MinSellPrice(sev.buy_order, sev.price_decimals)
        /\ sev.price > 0
        /\ 100 * sev.price >= 95 * sev.buy_order.price
        /\ sev.price - sev.buy_order.price <= 2 * sev.buy_order.price

(***************************************************************************)
(* C27: every buy order simple_trading_strategy sends has a volume of at   *)
(* least the pair's ordermin; when the budget-derived volume, rounded to   *)
(* the lot precision, is below ordermin, the order goes out with ordermin  *)
(* as its volume if its value fits the remaining budget, and otherwise the *)
(* call refuses: no order is sent and nothing is recorded.                 *)
(***************************************************************************)
C27_VolumeAtLeastOrdermin ==
    [][(ev'.op \in {"buy", "refuse"} /\ BudgetLeft1000(ledger[ev'.ex], ev'.price, ev'.ex) > 0)
       => LET rounded == RoundedVolume(balance[ev'.ex], ev'.price, ledger[ev'.ex])
              left == BudgetLeft1000(ledger[ev'.ex], ev'.price, ev'.ex)
          IN /\ ev'.op = "buy" => ev'.volume >= ev'.ordermin
             /\ (ev'.op = "buy" /\ ev'.accepted) =>
                    \E i \in OrderIds :
                        /\ orders[i] = None /\ orders'[i] # None
                        /\ orders'[i].vol >= ev'.ordermin
             /\ (rounded < ev'.ordermin /\ 1000 * ev'.order_value <= left) =>
                    ev'.op = "buy" /\ ev'.volume = ev'.ordermin
             /\ (rounded < ev'.ordermin /\ 1000 * ev'.order_value > left) =>
                    /\ ev'.op = "refuse"
                    /\ UNCHANGED <<ledger, positions, recorded, metrics, orders>>]_vars

\* C27 witness: the budget gives 30 tokens, ordermin is 600, and the order was
\* sent with a volume of 600.
C27_Witness ==
    /\ ev.op = "buy" /\ ev.accepted
    /\ ev.volume = ev.ordermin
    /\ RoundedVolume(balance[ev.ex], ev.price, ev.total) < ev.ordermin
    /\ \E i \in OrderIds : orders[i] # None /\ orders[i].vol = ev.ordermin

(***************************************************************************)
(* C28: a buy order carries leverage only when margin trading is enabled   *)
(* and a TradeBalance request that succeeded showed a sufficient margin    *)
(* level; when the level is insufficient or the request fails, raises or   *)
(* returns nothing, the order is sent as a spot order and no exception     *)
(* leaves the strategy.                                                    *)
(***************************************************************************)
C28_LeverageOnlyWhenConfirmed ==
    margin_order # None =>
        /\ CarriesLeverage(margin_order.leverage) =>
               /\ margin_order.enabled
               /\ margin_order.response.kind = "ok"
               /\ margin_order.response.m >= MarginFloor
        /\ ~margin_order.escaped

(***************************************************************************)
(* C29: once a get_balance request of a call has failed without being      *)
(* taken for a rate limit (it raised without a rate-limit message, or its  *)
(* answer had an unexpected format), the call sends no further request and *)
(* returns None.                                                           *)
(***************************************************************************)
C29_NoRetryAfterOtherFailure ==
    (call # None /\ call.fatal_at > 0) =>
        /\ Returned
        /\ call.result = None
        /\ call.requests = call.fatal_at

(***************************************************************************)
(* C30: a get_balance request that times out is retried after the backoff  *)
(* of its attempt unless it was the third request of the call, and the     *)
(* call ends by returning, a balance or None.                              *)
(***************************************************************************)
C30_TimeoutRetried ==
    (call # None /\ call.timeout_at > 0) =>
        /\ call.timeout_at < max_retries =>
              /\ Fetching \/ call.requests > call.timeout_at
              /\ \E k \in 1..Len(call.sleeps) :
                    /\ call.sleeps[k].attempt = call.timeout_at - 1
                    /\ call.sleeps[k].secs = 5 * Pow2(call.timeout_at - 1)
        /\ (call.timeout_at = max_retries /\ call.requests = max_retries) =>
              Returned /\ call.result = None

(***************************************************************************)
(* Properties of the matching order.                                       *)
(***************************************************************************)
\* The volume the last call of calculate_trade_profit took from the buy txid.
TakenFrom(txid) ==
    LET hits == {k \in 1..Len(last.result.taken) : last.result.taken[k].txid = txid}
    IN IF hits = {} THEN 0 ELSE last.result.taken[CHOOSE k \in hits : TRUE].volume

\* C31: calculate_trade_profit consumes the buys of the sell's pair oldest
\* fill first: it takes nothing from a buy while a buy of the pair that filled
\* earlier is left with volume it did not take.
C31_OldestBuyFirst ==
    (last.op = "sell" /\ last.result # None) =>
        \A a, b \in last.buys :
            (b.closetm < a.closetm /\ TakenFrom(a.txid) > 0) =>
                TakenFrom(b.txid) = b.volume

(***************************************************************************)
(* Properties of the position store's functions.                           *)
(***************************************************************************)
\* The positions of a list the claim has cleanup remove: those of the
\* exchange that are filled with a fill more than an hour old.
Expired(position, exchange) ==
    /\ position.exchange = exchange
    /\ position.status = "filled"
    /\ StoreNow - position.filled_timestamp > 3600

\* C32: cleanup_filled_positions(P, E) returns P, in order, without the
\* positions of E that are filled with a fill older than one hour; open
\* positions and positions of other exchanges stay as they are; the file is
\* rewritten only when a position was removed; a second cleanup at the same
\* instant changes nothing.
C32_CleanupRemovesOnlyExpired ==
    (store # None /\ store.op = "cleanup") =>
        LET P == store.open_positions
            stay == {k \in 1..Len(P) : ~Expired(P[k], store.exchange)}
        IN /\ Len(store.result) = Cardinality(stay)
           /\ \A k \in stay :
                 store.result[Cardinality({m \in stay : m <= k})] = P[k]
           /\ store.saved <=> (stay # 1..Len(P))
           /\ store.runs = 2 => store.result = P /\ ~store.saved

\* C32 witness: from a list of an expired position of the exchange and one of
\* the other exchange the first was removed, the file rewritten, and the
\* second cleanup has run.
C32_Witness ==
    /\ store # None /\ store.op = "cleanup" /\ store.runs = 2
    /\ Len(store.first) = 2 /\ Len(store.result) = 1
    /\ Expired(store.first[1], store.exchange)
    /\ store.first[2].exchange # store.exchange /\ store.first[2].status = "filled"
    /\ StoreNow - store.first[2].filled_timestamp > 3600
    /\ store.result[1] = store.first[2]

\* The lines of a file that are well-formed records less than 24 hours old.
Loadable(lines) ==
    {k \in 1..Len(lines) : Len(lines[k]) = 9 /\ StoreNow - lines[k][7] < 86400}

C34_BuyPriceWithinOnePercent ==
    priced # None =>
        /\ 100 * priced.buy_price <= 101 * priced.current_price
        /\ LET offset == IF priced.book = "bids" THEN priced.best_bid * 10001
                         ELSE IF priced.book = "empty" THEN priced.current_price * 10002
                         ELSE priced.current_price * 10001
           IN priced.buy_price = RoundDiv(Min(offset, priced.current_price * 10100), 10000)

(***************************************************************************)
(* C35: after a Ctrl-C at any point after the session metrics are set up   *)
(* (while the exchanges are initialised, during start-up, inside a cycle,  *)
(* during the cycle's sleep or during the wait after a cycle error), main  *)
(* has called generate_session_summary exactly once when it exits.         *)
(***************************************************************************)
C35_InterruptFlushesSummary ==
    (mpc = "exited" /\ interrupted # "no") => summaries = 1

(***************************************************************************)
(* C36: order placement works on both exchanges: a call of                 *)
(* simple_trading_strategy for BitMart that passes the sizing checks hands *)
(* its order to the exchange as it does for Kraken, and so does the        *)
(* place_sell_order call of check_and_place_sell_orders.                   *)
(***************************************************************************)
C36_PlacementReachesEveryExchange ==
    /\ ev.op = "buy" => ev.reached
    /\ (sev.op = "settle" /\ sev.balance_kind = "ok" /\ sev.outcome # "below_ordermin")
           => sev.reached


\* C37: for each filled buy order at most one sell order is placed over the
\* whole run, also after the first sell has filled or been cancelled.
C37_OneSellPerFilledBuy ==
    \A b \in 1..Len(xorders) :
        Cardinality({k \in 1..Len(xorders) :
                        xorders[k].side = "sell" /\ xorders[k].buy = b}) <= 1

\* The positions that count as open for the pair.
CountedOpen == get_open_positions_for_pair(run_positions, RunPair)

\* C39: the tracked positions with status open of a pair on an exchange, buys
\* and sells together, are never more than MAX_ORDERS_PER_PAIR.
C39_OpenPositionsWithinLimit ==
    Cardinality(CountedOpen) <= MAX_ORDERS_PER_PAIR


\* The position of order k counts as open for the pair.
CountsAsOpen(k) == \E i \in CountedOpen : run_positions[i].order_id = k

\* C38: a position whose order manage_open_orders cancelled stops counting as
\* open in some later cycle.
C38_CancelledStopsCounting ==
    \A k \in 1..MaxRunOrders :
        (k <= Len(xorders) /\ xorders[k].status = "canceled" /\ CountsAsOpen(k))
            ~> ~CountsAsOpen(k)


\* C40: every balance poll of a settlement answers the balance the exchange
\* holds at that moment, also one credited since the poll before.
C40_PollSeesCurrentBalance ==
    \A k \in 1..Len(poll_log) :
        poll_log[k].available_balance # -1 =>
            poll_log[k].available_balance = poll_log[k].held

=============================================================================
